---- MODULE Spec2Model ----
(***************************************************************************)
(* Zelda habit assistant: the habit store (SQLite tables habits,           *)
(* habit_entries, chat_history), the Dispatcher (HabitAutomationSystem),   *)
(* the voice command handler and the unified message pipeline.             *)
(*                                                                         *)
(* Strings are sequences of one-character strings, so that LOWER, strip,   *)
(* substring containment and whitespace splitting are computed the way     *)
(* SQLite and Python compute them.                                         *)
(***************************************************************************)
EXTENDS Integers, Sequences, FiniteSets, TLC

VARIABLES habits, entries, seq, chat, last, conns

vars == <<habits, entries, seq, chat, last, conns>>

(* ------------------------------ bounds --------------------------------- *)

\* largest habit id AUTOINCREMENT may hand out in a run
MaxId == 2
\* number of calendar days; the last one is date.today()
MaxDate == 2
\* rows chat_history may hold in a run
MaxChat == 2
\* calendar days, ending today, the calendar is toggled on before a status
\* query
MaxStreak == 4
\* whitespace characters before and after a text
MaxPad == 1
\* words of a raw habit name
MaxWords == 3

Users == {1, 2}
Today == MaxDate

(* ------------------------------ strings -------------------------------- *)

\* a value standing for Python's None where a string is expected
NoneValue == <<"None">>

SPACE == " "

\* the whitespace characters of the model: space, tab and newline
Whitespace == { " ", "\t", "\n" }

LowerLetters ==
    << "a", "b", "c", "d", "e", "f", "g", "h", "i", "j", "k", "l", "m",
       "n", "o", "p", "q", "r", "s", "t", "u", "v", "w", "x", "y", "z" >>

UpperLetters ==
    << "A", "B", "C", "D", "E", "F", "G", "H", "I", "J", "K", "L", "M",
       "N", "O", "P", "Q", "R", "S", "T", "U", "V", "W", "X", "Y", "Z" >>

LetterIndex(c, letters) == CHOOSE i \in 1..Len(letters) : letters[i] = c

\* the lower-case letter of every upper-case letter, and the reverse
LowerTable ==
    [c \in { UpperLetters[i] : i \in 1..Len(UpperLetters) }
        |-> LowerLetters[LetterIndex(c, UpperLetters)]]
UpperTable ==
    [c \in { LowerLetters[i] : i \in 1..Len(LowerLetters) }
        |-> UpperLetters[LetterIndex(c, LowerLetters)]]

IsUpper(c) == c \in DOMAIN LowerTable
IsLower(c) == c \in DOMAIN UpperTable
IsLetter(c) == IsUpper(c) \/ IsLower(c)

\* str.lower() / SQLite LOWER() of one character
LowerChar(c) == IF IsUpper(c) THEN LowerTable[c] ELSE c

\* str.upper() of one character
UpperChar(c) == IF IsLower(c) THEN UpperTable[c] ELSE c

Lower(s) == [i \in 1..Len(s) |-> LowerChar(s[i])]

\* byte value of a character (BINARY collation of the UNIQUE index)
CharCode(c) ==
    CASE c = " " -> 32
      [] c = "?" -> 63
      [] c = ":" -> 58
      [] IsUpper(c) -> 64 + LetterIndex(c, UpperLetters)
      [] IsLower(c) -> 96 + LetterIndex(c, LowerLetters)
      [] OTHER -> 0

\* s sorts strictly before t in BINARY collation
BinaryLess(s, t) ==
    \E k \in 1..(Len(t)) :
        /\ \A i \in 1..(k - 1) : i <= Len(s) /\ s[i] = t[i]
        /\ \/ Len(s) = k - 1
           \/ Len(s) >= k /\ CharCode(s[k]) < CharCode(t[k])

\* str.strip(): drop leading and trailing whitespace
RECURSIVE LStrip(_)
LStrip(s) ==
    IF s # <<>> /\ Head(s) \in Whitespace THEN LStrip(Tail(s)) ELSE s

RECURSIVE RStrip(_)
RStrip(s) ==
    IF s # <<>> /\ s[Len(s)] \in Whitespace
    THEN RStrip(SubSeq(s, 1, Len(s) - 1)) ELSE s

Strip(s) == RStrip(LStrip(s))

\* Python "a in b" on strings: a is a contiguous substring of b
Contains(b, a) ==
    \E i \in 0..(Len(b) - Len(a)) : SubSeq(b, i + 1, i + Len(a)) = a

\* set(s.split()): the maximal runs of non-whitespace characters
SplitWords(s) ==
    { SubSeq(s, i, j) : <<i, j>> \in
        { p \in (1..Len(s)) \X (1..Len(s)) :
            /\ p[1] <= p[2]
            /\ \A k \in p[1]..p[2] : s[k] \notin Whitespace
            /\ (p[1] = 1 \/ s[p[1] - 1] \in Whitespace)
            /\ (p[2] = Len(s) \/ s[p[2] + 1] \in Whitespace) } }

(* ------------------------------- store --------------------------------- *)

\* habits         : rows [id, user_id, name]            UNIQUE(user_id, name)
\* entries        : rows [user_id, habit_id, date, completed]
\*                                              UNIQUE(user_id, habit_id, date)
\* seq            : sqlite_sequence of habits (last AUTOINCREMENT id)
\* chat           : rows of chat_history per user (count)

DB == [habits |-> habits, entries |-> entries, seq |-> seq]

NotFound == [id |-> 0, name |-> <<>>]

\* rows of one user in the order the covering index (user_id, name) yields them
RECURSIVE IndexOrder(_)
IndexOrder(rows) ==
    IF rows = {} THEN <<>>
    ELSE LET first == CHOOSE r \in rows :
                         \A o \in rows : o = r \/ ~BinaryLess(o.name, r.name)
         IN <<first>> \o IndexOrder(rows \ {first})

\* first element of a sequence satisfying a test, as fetchone() / a for loop does
FirstRow(rowseq, matching) ==
    IF \E i \in 1..Len(rowseq) : rowseq[i] \in matching
    THEN LET i == CHOOSE i \in 1..Len(rowseq) :
                      /\ rowseq[i] \in matching
                      /\ \A j \in 1..(i - 1) : rowseq[j] \notin matching
         IN [id |-> rowseq[i].id, name |-> rowseq[i].name]
    ELSE NotFound

(* ---------------------- HabitAutomationSystem -------------------------- *)

\* the result dictionary every handler returns
Outcome(success, action, message, flags, name, date, error) ==
    [success |-> success, action |-> action, message |-> message,
     flags |-> flags, habit_name |-> name, new_name |-> <<>>, date |-> date,
     error |-> error, list |-> <<>>, stats |-> <<>>]

\* no result: the call was not a Dispatcher call
NoOutcome == Outcome(FALSE, "", "", {}, <<>>, <<>>, FALSE)

\* what a handler leaves behind: the store, its result, the habit id it
\* resolved (0 if none), whether a database call raised sqlite3.Error and
\* whether another exception escaped the handler
Handled(db, outcome, resolved, dbfailed) ==
    [db |-> db, outcome |-> outcome, resolved |-> resolved,
     dbfailed |-> dbfailed, raised |-> FALSE]

Raised(db) ==
    [db |-> db, outcome |-> Outcome(FALSE, "", "", {}, <<>>, <<>>, FALSE),
     resolved |-> 0, dbfailed |-> FALSE, raised |-> TRUE]

\* a connection in autocommit mode keeps what ran before the failure
Rollback_Autocommit(db, tx) == tx

\* a connection closed without commit() rolls its transaction back
Rollback(db, tx) == db

Commit(db, tx) == tx

\* a resolver whose queries leave out "AND user_id = ?"
UserRows_Everyone(db, user_id) == db.habits

\* the rows "... FROM habits WHERE ... user_id = ?" ranges over
UserRows(db, user_id) == { h \in db.habits : h.user_id = user_id }

\* containment tested in one direction only: the name looked up in the
\* stored name
PartialMatch_OneWay(habit_name_lower, name_lower) ==
    Contains(name_lower, habit_name_lower)

\* "habit_name_lower in name.lower() or name.lower() in habit_name_lower"
PartialMatch(habit_name_lower, name_lower) ==
    \/ Contains(name_lower, habit_name_lower)
    \/ Contains(habit_name_lower, name_lower)

\* a resolver that forgets the word-overlap step
WordOverlap_Never(habit_name_lower, name_lower) == 0

\* len(habit_words.intersection(name_words))
WordOverlap(habit_name_lower, name_lower) ==
    Cardinality(SplitWords(habit_name_lower) \cap SplitWords(name_lower))

\* _find_habit_by_name; failAt is the SELECT (1..3) that raises, 0 for none
_find_habit_by_name(db, habit_name, user_id, failAt) ==
    LET rows == UserRows(db, user_id)
        all_habits == IndexOrder(rows)
        habit_name_lower == Lower(habit_name)
        exact == FirstRow(all_habits, { r \in rows : r.name = habit_name })
        nocase == FirstRow(all_habits, { r \in rows : Lower(r.name) = habit_name_lower })
        partial == FirstRow(all_habits,
                       { r \in rows : PartialMatch(habit_name_lower, Lower(r.name)) })
        Overlap(r) == WordOverlap(habit_name_lower, Lower(r.name))
        \* "if overlap > best_score" keeps the first row reaching the maximum
        best_match == FirstRow(all_habits,
                          { r \in rows : /\ Overlap(r) > 0
                                         /\ \A o \in rows : Overlap(o) <= Overlap(r) })
        Hit(row) == [id |-> row.id, name |-> row.name, failed |-> FALSE]
        Fail == [id |-> 0, name |-> <<>>, failed |-> TRUE]
    IN  IF failAt = 1 THEN Fail
        ELSE IF exact.id # 0 THEN Hit(exact)
        ELSE IF failAt = 2 THEN Fail
        ELSE IF nocase.id # 0 THEN Hit(nocase)
        ELSE IF failAt = 3 THEN Fail
        ELSE IF partial.id # 0 THEN Hit(partial)
        ELSE IF best_match.id # 0 THEN Hit(best_match)
        ELSE Hit(NotFound)

\* the SELECT of the find the handler's failing call falls on (calls 2..4)
FindFail(fail) == IF fail \in 2..4 THEN fail - 1 ELSE 0

\* "SELECT id FROM habits WHERE name = ? AND user_id = ?" finds a row
\* a duplicate check that asks the fuzzy resolver
ExistingHabit_Fuzzy(db, habit_name, user_id) ==
    _find_habit_by_name(db, habit_name, user_id, 0).id # 0

\* "SELECT id FROM habits WHERE name = ? AND user_id = ?" finds a row
ExistingHabit(db, habit_name, user_id) ==
    \E h \in db.habits : h.name = habit_name /\ h.user_id = user_id

\* _add_habit; database calls: 1 connect, 2 SELECT, 3 INSERT, 4 commit
_add_habit(db, data, user_id, fail) ==
    IF data.habit_name = NoneValue THEN Raised(db)
    ELSE
    LET habit_name == Strip(data.habit_name)
        Error == Handled(db, Outcome(FALSE, "add_habit", "sorry_add", {},
                                     <<>>, <<>>, TRUE), 0, TRUE)
        existing_habit == ExistingHabit(db, habit_name, user_id)
        habit_id == db.seq + 1
        tx == [db EXCEPT !.habits = @ \cup {[id |-> habit_id,
                                             user_id |-> user_id,
                                             name |-> habit_name]},
                         !.seq = habit_id]
    IN  IF habit_name = <<>> \/ Len(habit_name) < 2
        THEN Handled(db, Outcome(FALSE, "add_habit", "invalid_name", {},
                                 <<>>, <<>>, FALSE), 0, FALSE)
        ELSE IF fail \in {1, 2} THEN Error
        ELSE IF existing_habit
        THEN Handled(db, Outcome(FALSE, "add_habit", "already_have",
                                 {"already_exists"}, habit_name, <<>>, FALSE),
                     0, FALSE)
        ELSE IF fail = 3 THEN Error
        ELSE IF fail = 4 THEN [Error EXCEPT !.db = Rollback(db, tx)]
        ELSE Handled(Commit(db, tx),
                     Outcome(TRUE, "add_habit", "added", {"created"},
                             habit_name, <<>>, FALSE),
                     habit_id, FALSE)

\* a completion that never notices the entry is already completed
AlreadyCompleted_Never(existing) == FALSE

\* "if existing and existing[0]"
AlreadyCompleted(existing) == \E e \in existing : e.completed

\* _complete_habit; database calls: 1 connect, 2..4 find, 5 SELECT entry,
\* 6 UPDATE or INSERT, 7 commit
\* a completion without a date is recorded on the day before today
TargetDate_Yesterday(data) ==
    IF data.date = <<>> THEN Today - 1 ELSE data.date[1]

\* "if not target_date: target_date = date.today().isoformat()"
TargetDate(data) == IF data.date = <<>> THEN Today ELSE data.date[1]

_complete_habit(db, data, user_id, fail) ==
    IF data.habit_name = NoneValue THEN Raised(db)
    ELSE
    LET habit_name == Strip(data.habit_name)
        target_date == TargetDate(data)
        Error == Handled(db, Outcome(FALSE, "complete_habit", "sorry_complete",
                                     {}, <<>>, <<>>, TRUE), 0, TRUE)
        found == _find_habit_by_name(db, habit_name, user_id, FindFail(fail))
        Key(e) == /\ e.user_id = user_id
                  /\ e.habit_id = found.id
                  /\ e.date = target_date
        existing == { e \in db.entries : Key(e) }
        tx == IF existing # {}
              THEN [db EXCEPT !.entries =
                       { IF Key(e) THEN [e EXCEPT !.completed = TRUE] ELSE e
                         : e \in @ }]
              ELSE [db EXCEPT !.entries =
                       @ \cup {[user_id |-> user_id, habit_id |-> found.id,
                                date |-> target_date, completed |-> TRUE]}]
    IN  IF habit_name = <<>>
        THEN Handled(db, Outcome(FALSE, "complete_habit", "specify_habit", {},
                                 <<>>, <<>>, FALSE), 0, FALSE)
        ELSE IF fail = 1 \/ found.failed THEN Error
        ELSE IF found.id = 0
        THEN Handled(db, Outcome(FALSE, "complete_habit", "not_found_create",
                                 {"not_found"}, habit_name, <<>>, FALSE),
                     0, FALSE)
        ELSE IF fail = 5 THEN Error
        ELSE IF AlreadyCompleted(existing)
        THEN Handled(db, Outcome(FALSE, "complete_habit", "already_completed",
                                 {"already_completed"}, found.name,
                                 <<target_date>>, FALSE),
                     found.id, FALSE)
        ELSE IF fail = 6 THEN Error
        ELSE IF fail = 7 THEN [Error EXCEPT !.db = Rollback(db, tx)]
        ELSE Handled(Commit(db, tx),
                     Outcome(TRUE, "complete_habit", "marked_completed",
                             {"completed"}, found.name, <<target_date>>, FALSE),
                     found.id, FALSE)

\* "SELECT id FROM habits WHERE name = ? AND user_id = ? AND id != ?" finds a row
NameExists(db, new_name, user_id, habit_id) ==
    \E h \in db.habits :
        h.name = new_name /\ h.user_id = user_id /\ h.id # habit_id

\* an UPDATE without its WHERE clause: every habit gets the name
UpdateName_Everywhere(db, habit_id, new_name) ==
    [db EXCEPT !.habits = { [h EXCEPT !.name = new_name] : h \in @ }]

\* "UPDATE habits SET name = ? WHERE id = ?"
UpdateName(db, habit_id, new_name) ==
    [db EXCEPT !.habits =
        { IF h.id = habit_id THEN [h EXCEPT !.name = new_name] ELSE h
          : h \in @ }]

\* _rename_habit; database calls: 1 connect, 2..4 find, 5 SELECT of the new
\* name, 6 UPDATE, 7 commit
_rename_habit(db, old_name, new_name, user_id, fail) ==
    LET Error == Handled(db, Outcome(FALSE, "edit_habit", "sorry_rename", {},
                                     <<>>, <<>>, TRUE), 0, TRUE)
        found == _find_habit_by_name(db, old_name, user_id, FindFail(fail))
        name_exists == NameExists(db, new_name, user_id, found.id)
        tx == UpdateName(db, found.id, new_name)
    IN  IF old_name = <<>> \/ new_name = <<>>
        THEN Handled(db, Outcome(FALSE, "edit_habit", "provide_both", {},
                                 <<>>, <<>>, FALSE), 0, FALSE)
        ELSE IF fail = 1 \/ found.failed THEN Error
        ELSE IF found.id = 0
        THEN Handled(db, Outcome(FALSE, "edit_habit", "not_found_rename",
                                 {"not_found"}, old_name, <<>>, FALSE),
                     0, FALSE)
        ELSE IF fail = 5 THEN Error
        ELSE IF name_exists
        THEN Handled(db, [Outcome(FALSE, "edit_habit", "name_taken",
                                  {"name_exists"}, <<>>, <<>>, FALSE)
                            EXCEPT !.new_name = new_name],
                     found.id, FALSE)
        ELSE IF fail = 6 THEN Error
        ELSE IF fail = 7 THEN [Error EXCEPT !.db = Rollback(db, tx)]
        ELSE Handled(Commit(db, tx),
                     [Outcome(TRUE, "edit_habit", "renamed", {"renamed"},
                              found.name, <<>>, FALSE)
                        EXCEPT !.new_name = new_name],
                     found.id, FALSE)

\* _edit_habit
_edit_habit(db, data, user_id, fail) ==
    IF NoneValue \in {data.old_name, data.new_name, data.habit_name}
    THEN Raised(db)
    ELSE
    LET old_name == Strip(data.old_name)
        new_name == Strip(data.new_name)
        habit_name == Strip(data.habit_name)
    IN  IF new_name # <<>>
        THEN _rename_habit(db, old_name, new_name, user_id, fail)
        ELSE IF habit_name # <<>>
        THEN Handled(db, Outcome(TRUE, "edit_habit", "what_to_change",
                                 {"edit_request"}, habit_name, <<>>, FALSE),
                     0, FALSE)
        ELSE Handled(db, Outcome(FALSE, "edit_habit", "specify_edit", {},
                                 <<>>, <<>>, FALSE), 0, FALSE)

\* a delete that removes the entries of every habit
DeleteEntries_Everyone(db, habit_id) == [db EXCEPT !.entries = {}]

\* a delete that forgets the entries of the habit
DeleteEntries_Forgotten(db, habit_id) == db

\* "DELETE FROM habit_entries WHERE habit_id = ?"
DeleteEntries(db, habit_id) ==
    [db EXCEPT !.entries = { e \in @ : e.habit_id # habit_id }]

\* "DELETE FROM habits WHERE id = ?"
DeleteHabitRow(db, habit_id) ==
    [db EXCEPT !.habits = { h \in @ : h.id # habit_id }]

\* _delete_habit; database calls: 1 connect, 2..4 find, 5 DELETE of the
\* entries, 6 DELETE of the habit, 7 commit
_delete_habit(db, data, user_id, fail) ==
    IF data.habit_name = NoneValue THEN Raised(db)
    ELSE
    LET habit_name == Strip(data.habit_name)
        Error == Handled(db, Outcome(FALSE, "delete_habit", "sorry_delete", {},
                                     <<>>, <<>>, TRUE), 0, TRUE)
        found == _find_habit_by_name(db, habit_name, user_id, FindFail(fail))
        tx1 == DeleteEntries(db, found.id)
        tx2 == DeleteHabitRow(tx1, found.id)
    IN  IF habit_name = <<>>
        THEN Handled(db, Outcome(FALSE, "delete_habit", "specify_delete", {},
                                 <<>>, <<>>, FALSE), 0, FALSE)
        ELSE IF fail = 1 \/ found.failed THEN Error
        ELSE IF found.id = 0
        THEN Handled(db, Outcome(FALSE, "delete_habit", "not_found_delete",
                                 {"not_found"}, habit_name, <<>>, FALSE),
                     0, FALSE)
        ELSE IF fail = 5 THEN Error
        ELSE IF fail = 6 THEN [Error EXCEPT !.db = Rollback(db, tx1)]
        ELSE IF fail = 7 THEN [Error EXCEPT !.db = Rollback(db, tx2)]
        ELSE Handled(Commit(db, tx2),
                     Outcome(TRUE, "delete_habit", "removed", {"deleted"},
                             found.name, <<>>, FALSE),
                     found.id, FALSE)

\* _show_habits; database calls: 1 connect, 2 SELECT of the habits (ORDER BY
\* name), 3 the SELECTs of today's entries
_show_habits(db, user_id, fail) ==
    LET Error == Handled(db, Outcome(FALSE, "show_habits", "sorry_show", {},
                                     <<>>, <<>>, TRUE), 0, TRUE)
        rows == IndexOrder(UserRows(db, user_id))
        is_completed(h) ==
            \E e \in db.entries :
                e.habit_id = h.id /\ e.date = Today /\ e.completed
        habit_list == [i \in 1..Len(rows) |->
                          [name |-> rows[i].name,
                           completed_today |-> is_completed(rows[i])]]
    IN  IF fail \in {1, 2} THEN Error
        ELSE IF rows = <<>>
        THEN Handled(db, Outcome(TRUE, "show_habits", "no_habits_yet",
                                 {"empty"}, <<>>, <<>>, FALSE), 0, FALSE)
        ELSE IF fail = 3 THEN Error
        ELSE Handled(db, [Outcome(TRUE, "show_habits", "your_habits_are", {},
                                  <<>>, <<>>, FALSE)
                            EXCEPT !.list = habit_list], 0, FALSE)

\* _calculate_current_streak: entries are <<date, completed>> pairs
RECURSIVE LeadingCompleted(_)
LeadingCompleted(sorted_entries) ==
    IF sorted_entries = <<>> THEN 0
    ELSE IF Head(sorted_entries)[2]
    THEN 1 + LeadingCompleted(Tail(sorted_entries))
    ELSE 0

\* sorted(entries, key=date, reverse=True)
RECURSIVE SortDesc(_)
SortDesc(pairs) ==
    IF pairs = {} THEN <<>>
    ELSE LET top == CHOOSE p \in pairs : \A q \in pairs : q[1] <= p[1]
         IN <<top>> \o SortDesc(pairs \ {top})

_calculate_current_streak(entries_) ==
    IF entries_ = {} THEN 0 ELSE LeadingCompleted(SortDesc(entries_))

\* "date >= date('now', '-30 days')"
RecentDays == 30

\* _get_habit_status; database calls: 1 connect, 2..4 find, 5 SELECT of the
\* entries of the last 30 days
_get_habit_status(db, data, user_id, fail) ==
    IF data.habit_name = NoneValue THEN Raised(db)
    ELSE
    LET habit_name == Strip(data.habit_name)
        Error == Handled(db, Outcome(FALSE, "habit_status", "sorry_status", {},
                                     <<>>, <<>>, TRUE), 0, TRUE)
        found == _find_habit_by_name(db, habit_name, user_id, FindFail(fail))
        rows == { <<e.date, e.completed>> :
                    e \in { x \in db.entries : /\ x.habit_id = found.id
                                               /\ x.date >= Today - RecentDays } }
        total_days == Cardinality(rows)
        completed_days == Cardinality({ r \in rows : r[2] })
        completed_today == <<Today, TRUE>> \in rows
        current_streak == _calculate_current_streak(rows)
    IN  IF habit_name = <<>>
        THEN Handled(db, Outcome(FALSE, "habit_status", "specify_status", {},
                                 <<>>, <<>>, FALSE), 0, FALSE)
        ELSE IF fail = 1 \/ found.failed THEN Error
        ELSE IF found.id = 0
        THEN Handled(db, Outcome(FALSE, "habit_status", "not_found",
                                 {"not_found"}, habit_name, <<>>, FALSE),
                     0, FALSE)
        ELSE IF fail = 5 THEN Error
        ELSE Handled(db,
                     [Outcome(TRUE, "habit_status", "status_report",
                              IF completed_today THEN {"completed_today"}
                              ELSE {},
                              found.name, <<>>, FALSE)
                        EXCEPT !.stats = <<completed_days, total_days,
                                           current_streak>>],
                     found.id, FALSE)

\* the catch-all of execute_habit_action: an exception that leaves a handler
\* becomes the generic failure, any other result is returned as it is
GenericFailure(r, action) ==
    IF r.raised
    THEN [r EXCEPT !.outcome = Outcome(FALSE, action, "sorry_habit_action",
                                       {}, <<>>, <<>>, TRUE),
                   !.raised = FALSE]
    ELSE r

\* HabitAutomationSystem.execute_habit_action
execute_habit_action(db, intent_result, user_id, fail) ==
    LET action == intent_result.action
        data == intent_result.data
    IN  GenericFailure(
            CASE action = "add_habit" -> _add_habit(db, data, user_id, fail)
              [] action = "complete_habit" ->
                     _complete_habit(db, data, user_id, fail)
              [] action = "edit_habit" -> _edit_habit(db, data, user_id, fail)
              [] action = "delete_habit" ->
                     _delete_habit(db, data, user_id, fail)
              [] action = "show_habits" -> _show_habits(db, user_id, fail)
              [] action = "habit_status" ->
                     _get_habit_status(db, data, user_id, fail)
              [] OTHER ->
                     Handled(db, Outcome(FALSE, "unknown", "not_sure", {},
                                         <<>>, <<>>, FALSE), 0, FALSE),
            action)

(* --------------------------- app.py (legacy) --------------------------- *)

\* app.py save_habit_date: get or create the habit, then toggle the entry
save_habit_date(db, habit_name, date, user_id) ==
    LET row == { h \in db.habits : h.name = habit_name /\ h.user_id = user_id }
        habit_id == IF row = {} THEN db.seq + 1 ELSE (CHOOSE h \in row : TRUE).id
        db1 == IF row = {}
               THEN [db EXCEPT !.habits = @ \cup {[id |-> habit_id,
                                                   user_id |-> user_id,
                                                   name |-> habit_name]},
                               !.seq = habit_id]
               ELSE db
        Key(e) == e.habit_id = habit_id /\ e.date = date /\ e.user_id = user_id
    IN  IF \E e \in db1.entries : Key(e)
        THEN [db1 EXCEPT !.entries =
                 { IF Key(e) THEN [e EXCEPT !.completed = ~e.completed] ELSE e
                   : e \in @ }]
        ELSE [db1 EXCEPT !.entries =
                 @ \cup {[user_id |-> user_id, habit_id |-> habit_id,
                          date |-> date, completed |-> TRUE]}]

(* ------------------------------ inputs --------------------------------- *)

\* habit names callers pass: "", "x", "Xy", "xy", "Xy Y", "Y X", " Xy", None
NameInputs ==
    { <<>>, <<"x">>, <<"X", "y">>, <<"x", "y">>, <<"X", "y", " ", "Y">>,
      <<"Y", " ", "X">>, <<" ", "X", "y">>, NoneValue }

\* names a habit is looked up by
LookupNames ==
    { <<>>, <<"x">>, <<"X", "y">>, <<"x", "y">>, <<"X", "y", " ", "Y">>,
      <<"Y", " ", "X">> }

\* data.get('date'): None (today) or the ISO date of an earlier day
DateInputs == { <<>> } \cup { <<d>> : d \in (1..MaxDate) \ {Today} }

Data(habit_name, old_name, new_name, date) ==
    [habit_name |-> habit_name, old_name |-> old_name,
     new_name |-> new_name, date |-> date, target_page |-> ""]

Intent(action, data, confidence) ==
    [action |-> action, data |-> data, confidence |-> confidence]

NoData == Data(<<>>, <<>>, <<>>, <<>>)

Named(action, n) == Intent(action, Data(n, <<>>, <<>>, <<>>), 0)

\* intents handed to execute_habit_action
DispatcherIntents(user_id) ==
    IF user_id = 1
    THEN { Named("add_habit", n) : n \in NameInputs }
         \cup { Named("delete_habit", n) : n \in LookupNames }
         \cup { Named("habit_status", n) :
                  n \in { <<>>, <<"X", "y">>, <<"Y", " ", "X">> } }
         \cup { Intent("complete_habit", Data(n, <<>>, <<>>, d), 0) :
                  n \in { <<>>, <<"X", "y">>, <<"Y", " ", "X">> },
                  d \in DateInputs }
         \cup { Intent("edit_habit", Data(<<>>, o, n, <<>>), 0) :
                  o \in { <<>>, <<"X", "y">>, <<"Y", " ", "X">> },
                  n \in { <<"X", "y">>, <<"x", "y">>, <<"X", "y", " ", "Y">> } }
         \cup { Named("edit_habit", <<>>), Named("edit_habit", <<"X", "y">>),
                Named("edit_habit", NoneValue),
                Intent("show_habits", NoData, 0),
                Intent("navigate_home", NoData, 0) }
    ELSE {}

\* the database call that raises sqlite3.Error in a call (0: none)
FailPoints(user_id, intent) ==
    IF user_id # 1 THEN {0}
    ELSE IF intent = Named("add_habit", <<"X", "y">>) THEN 0..4
    ELSE IF intent \in { Named("delete_habit", <<"X", "y">>),
                         Named("delete_habit", <<"x">>),
                         Named("complete_habit", <<"X", "y">>),
                         Intent("edit_habit",
                                Data(<<>>, <<"X", "y">>, <<"X", "y", " ", "Y">>,
                                     <<>>), 0) }
    THEN {0, 1, 5, 6, 7}
    ELSE IF intent = Named("delete_habit", <<"x", "y">>) THEN {0, 2, 3, 4}
    ELSE IF intent = Intent("show_habits", NoData, 0) THEN {0, 1, 3}
    ELSE IF intent = Named("habit_status", <<"X", "y">>) THEN {0, 5}
    ELSE {0}

(* ---------------------------- IntentParser ------------------------------ *)

\* str.split(): the words of s, in order
RECURSIVE Words(_)
Words(s) ==
    LET t == LStrip(s)
    IN  IF t = <<>> THEN <<>>
        ELSE LET k == CHOOSE k \in 1..Len(t) :
                          /\ \A i \in 1..k : t[i] \notin Whitespace
                          /\ (k = Len(t) \/ t[k + 1] \in Whitespace)
             IN  <<SubSeq(t, 1, k)>> \o Words(SubSeq(t, k + 1, Len(t)))

\* ' '.join(words)
RECURSIVE Join(_)
Join(ws) ==
    IF ws = <<>> THEN <<>>
    ELSE IF Len(ws) = 1 THEN ws[1]
    ELSE ws[1] \o <<SPACE>> \o Join(Tail(ws))

\* str.title(): a letter is upper case after a non-letter, else lower case
Title(s) ==
    [i \in 1..Len(s) |->
        IF i = 1 \/ ~IsLetter(s[i - 1]) THEN UpperChar(s[i]) ELSE LowerChar(s[i])]

\* the alternatives of the five leading noise_patterns of _clean_habit_name,
\* in the order they are applied: verbs, articles, nouns, links, determiners
NoisePatterns ==
    << { <<"a", "d", "d">>, <<"c", "r", "e", "a", "t", "e">>,
         <<"s", "t", "a", "r", "t">>, <<"b", "e", "g", "i", "n">>,
         <<"m", "a", "k", "e">>, <<"t", "r", "a", "c", "k">>,
         <<"b", "u", "i", "l", "d">> },
       { <<"a">>, <<"a", "n">>, <<"t", "h", "e">> },
       { <<"h", "a", "b", "i", "t">>, <<"r", "o", "u", "t", "i", "n", "e">> },
       { <<"c", "a", "l", "l", "e", "d">>, <<"n", "a", "m", "e", "d">>,
         <<"f", "o", "r">>, <<"t", "o">> },
       { <<"m", "y">>, <<"t", "h", "i", "s">>, <<"t", "h", "a", "t">> } >>

\* noise_words of _clean_habit_name
NoiseWords ==
    { <<"t", "h", "e">>, <<"a">>, <<"a", "n">>, <<"m", "y">>,
      <<"t", "h", "i", "s">>, <<"t", "h", "a", "t">>, <<"f", "o", "r">>,
      <<"t", "o">>, <<"o", "f">>, <<"w", "i", "t", "h">>,
      <<"c", "a", "l", "l", "e", "d">>, <<"n", "a", "m", "e", "d">> }

\* re.sub(r'^(?:w1|w2|...)\s+', '', cleaned, flags=re.IGNORECASE) on the words
DropLeading(ws, alternatives) ==
    IF Len(ws) >= 2 /\ Lower(ws[1]) \in alternatives THEN Tail(ws) ELSE ws

\* re.sub(r'\s+(?:habit|routine|daily|every day)$', '', cleaned, re.IGNORECASE)
DropTrailing(ws) ==
    LET n == Len(ws)
        TrailingNoise == { <<"h", "a", "b", "i", "t">>,
                           <<"r", "o", "u", "t", "i", "n", "e">>,
                           <<"d", "a", "i", "l", "y">> }
    IN  IF n >= 2 /\ Lower(ws[n]) \in TrailingNoise THEN SubSeq(ws, 1, n - 1)
        ELSE IF n >= 3 /\ Lower(ws[n - 1]) = <<"e", "v", "e", "r", "y">>
                       /\ Lower(ws[n]) = <<"d", "a", "y">>
        THEN SubSeq(ws, 1, n - 2)
        ELSE ws

\* [w for w in words if w.lower() not in noise_words]
RECURSIVE DropNoiseWords(_)
DropNoiseWords(ws) ==
    IF ws = <<>> THEN <<>>
    ELSE IF Lower(Head(ws)) \in NoiseWords THEN DropNoiseWords(Tail(ws))
    ELSE <<Head(ws)>> \o DropNoiseWords(Tail(ws))

\* the characters re.sub removes first: the double quote and the single
\* quote (and the backquote, which the alphabet of the model leaves out)
QuoteChars == { "\"", "'" }

RemoveQuotes(s) ==
    LET Kept(c) == c \notin QuoteChars
    IN  SelectSeq(s, Kept)

\* IntentParser._clean_habit_name
_clean_habit_name(name) ==
    IF name = <<>> THEN <<>>
    ELSE LET w0 == Words(RemoveQuotes(Strip(name)))
             w1 == DropLeading(w0, NoisePatterns[1])
             w2 == DropLeading(w1, NoisePatterns[2])
             w3 == DropLeading(w2, NoisePatterns[3])
             w4 == DropLeading(w3, NoisePatterns[4])
             w5 == DropLeading(w4, NoisePatterns[5])
             w6 == DropTrailing(w5)
         IN  Title(Join(DropNoiseWords(w6)))

\* IntentParser._parse_date on the relative forms; a numeric date returns
\* None, and so does every other string without the word september
_parse_date(date_str) ==
    LET d == Strip(Lower(date_str))
        YESTERDAY == <<"y", "e", "s", "t", "e", "r", "d", "a", "y">>
        TODAY == <<"t", "o", "d", "a", "y">>
        TOMORROW == <<"t", "o", "m", "o", "r", "r", "o", "w">>
        LAST_WEEK == <<"l", "a", "s", "t", " ", "w", "e", "e", "k">>
        NEXT_WEEK == <<"n", "e", "x", "t", " ", "w", "e", "e", "k">>
    IN  IF d = <<>> THEN <<>>
        ELSE IF Contains(d, YESTERDAY) THEN <<Today - 1>>
        ELSE IF Contains(d, TODAY) THEN <<Today>>
        ELSE IF Contains(d, TOMORROW) THEN <<Today + 1>>
        ELSE IF Contains(d, LAST_WEEK) THEN <<Today - 7>>
        ELSE IF Contains(d, NEXT_WEEK) THEN <<Today + 7>>
        ELSE <<>>

\* _create_result
_create_result(action, data, confidence) == Intent(action, data, confidence)

\* what _extract_habit_details returns when it extracts nothing
None == Intent("None", NoData, 0)

\* the simple edit request passes the dispatch gate by a smaller margin
Confidence_Lowered(action, groups) ==
    CASE action \in {"add_habit", "complete_habit", "delete_habit"} -> 85
      [] action = "complete_habit_date" -> 80
      [] action = "edit_habit" -> IF Len(groups) >= 2 THEN 80 ELSE 65
      [] action = "habit_status" -> 80
      [] action \in {"refresh_page", "clear_data"} -> 85
      [] OTHER -> 90

\* the fixed confidence _extract_habit_details gives each action, in percent
Confidence(action, groups) ==
    CASE action \in {"add_habit", "complete_habit", "delete_habit"} -> 85
      [] action = "complete_habit_date" -> 80
      [] action = "edit_habit" -> IF Len(groups) >= 2 THEN 80 ELSE 70
      [] action = "habit_status" -> 80
      [] action \in {"refresh_page", "clear_data"} -> 85
      [] OTHER -> 90

NavigationActions ==
    { "navigate_home", "navigate_habits", "navigate_analytics",
      "navigate_chat", "navigate_settings" }

OtherCommands ==
    { "logout", "view_account", "refresh_page", "clear_data", "show_help",
      "app_info", "show_today", "show_calendar" }

\* the page a navigation is for, left as it is named in the action
TargetPage_Unreplaced(action) == action

\* "action.replace('navigate_', '')"
TargetPage(action) ==
    CASE action = "navigate_home" -> "home"
      [] action = "navigate_habits" -> "habits"
      [] action = "navigate_analytics" -> "analytics"
      [] action = "navigate_chat" -> "chat"
      [] action = "navigate_settings" -> "settings"
      [] OTHER -> action

\* IntentParser._extract_habit_details on the groups a pattern captured
_extract_habit_details(action, groups) ==
    LET habit_name == _clean_habit_name(groups[1])
        confidence == Confidence(action, groups)
    IN  CASE action \in {"add_habit", "complete_habit", "delete_habit",
                         "habit_status"} ->
                IF habit_name # <<>> /\ Len(habit_name) > 1
                THEN _create_result(action,
                                    Data(habit_name, <<>>, <<>>, <<>>),
                                    confidence)
                ELSE None
          [] action = "complete_habit_date" ->
                IF habit_name # <<>> /\ Len(habit_name) > 1
                THEN _create_result("complete_habit",
                         Data(habit_name, <<>>, <<>>,
                              IF Len(groups) > 1 /\ Strip(groups[2]) # <<>>
                              THEN _parse_date(Strip(groups[2])) ELSE <<>>),
                         confidence)
                ELSE None
          [] action = "edit_habit" ->
                IF Len(groups) >= 2
                THEN LET new_name == _clean_habit_name(groups[2])
                     IN  IF habit_name # <<>> /\ new_name # <<>>
                         THEN _create_result(action,
                                  Data(<<>>, habit_name, new_name, <<>>),
                                  confidence)
                         ELSE None
                ELSE IF habit_name # <<>>
                THEN _create_result(action,
                                    Data(habit_name, <<>>, <<>>, <<>>),
                                    confidence)
                ELSE None
          [] action \in NavigationActions ->
                _create_result(action,
                               [NoData EXCEPT !.target_page = TargetPage(action)],
                               confidence)
          [] action = "show_habits" \/ action \in OtherCommands ->
                _create_result(action, NoData, confidence)
          [] OTHER -> None

\* the last pattern that matches decides instead of the first
_check_habit_actions_Last(matches) ==
    LET yielding == { i \in 1..Len(matches) :
                        _extract_habit_details(matches[i].action,
                                               matches[i].groups) # None }
    IN  IF yielding = {} THEN _create_result("unknown", NoData, 0)
        ELSE LET i == CHOOSE i \in yielding : \A j \in yielding : j <= i
             IN  _extract_habit_details(matches[i].action, matches[i].groups)

\* IntentParser._check_habit_actions: the first pattern, in the order of the
\* pattern table, that matches and from which details are extracted
RECURSIVE _check_habit_actions(_)
_check_habit_actions(matches) ==
    IF matches = <<>> THEN _create_result("unknown", NoData, 0)
    ELSE LET m == Head(matches)
             result == _extract_habit_details(m.action, m.groups)
         IN  IF result # None THEN result
             ELSE _check_habit_actions(Tail(matches))

\* every text has characters: the test for the empty text is lost
IsEmpty_Never(text) == FALSE

\* "if not text" on text.strip()
IsEmpty(text) == text = <<>>

\* parse_intent without the conversational short-circuit: the action
\* patterns are tried on every text
parse_intent_ActionsFirst(u) ==
    IF IsEmpty(Strip(u.chars)) THEN _create_result("unknown", NoData, 0)
    ELSE LET habit_result == _check_habit_actions(u.matches)
         IN  IF habit_result.confidence > 50 THEN habit_result
             ELSE IF u.conversational
             THEN _create_result("conversation", NoData, 90)
             ELSE IF u.keywords
             THEN _create_result("habit_conversation", NoData, 60)
             ELSE _create_result("conversation", NoData, 70)

\* IntentParser.parse_intent of an utterance: the characters received,
\* whether a conversation pattern matches the stripped text, the action
\* patterns that match it with their groups, and whether it contains a habit
\* keyword
parse_intent(u) ==
    IF IsEmpty(Strip(u.chars)) THEN _create_result("unknown", NoData, 0)
    ELSE IF u.conversational THEN _create_result("conversation", NoData, 90)
    ELSE LET habit_result == _check_habit_actions(u.matches)
         IN  IF habit_result.confidence > 50 THEN habit_result
             ELSE IF u.keywords
             THEN _create_result("habit_conversation", NoData, 60)
             ELSE _create_result("conversation", NoData, 70)

\* The utterances of the model. Each records its text, the characters
\* received (the text, with whitespace around it in some calls) and what the
\* regular expressions of the source find in the stripped, lower-cased text:
\* whether one of conversation_patterns matches,
\* the patterns of habit_action_patterns that match, in table order, with the
\* groups they capture, whether a habit keyword occurs, and the groups the
\* habit_patterns of detect_and_create_items capture.
Utterances ==
    {
      [text |-> "add a habit called xy",
       chars |-> <<"a", "d", "d", " ", "a", " ", "h", "a", "b", "i", "t", " ",
                  "c", "a", "l", "l", "e", "d", " ", "x", "y">>,
       conversational |-> FALSE, keywords |-> TRUE,
       matches |-> <<
          [action |-> "add_habit",
           groups |-> << <<"x", "y">> >>],
          [action |-> "add_habit",
           groups |-> << <<"x", "y">> >>] >>,
       implicit |-> << <<"c", "a", "l", "l", "e", "d", " ", "x", "y">> >>],
      [text |-> "add a habit called a xy y",
       chars |-> <<"a", "d", "d", " ", "a", " ", "h", "a", "b", "i", "t", " ",
                  "c", "a", "l", "l", "e", "d", " ", "a", " ", "x", "y", " ",
                  "y">>,
       conversational |-> FALSE, keywords |-> TRUE,
       matches |-> <<
          [action |-> "add_habit",
           groups |-> << <<"a", " ", "x", "y", " ", "y">> >>],
          [action |-> "add_habit",
           groups |-> << <<"a", " ", "x", "y", " ", "y">> >>] >>,
       implicit |-> << <<"c", "a", "l", "l", "e", "d", " ", "a", " ", "x", "y", " ", "y">> >>],
      [text |-> "add a habit called x",
       chars |-> <<"a", "d", "d", " ", "a", " ", "h", "a", "b", "i", "t", " ",
                  "c", "a", "l", "l", "e", "d", " ", "x">>,
       conversational |-> FALSE, keywords |-> TRUE,
       matches |-> <<
          [action |-> "add_habit",
           groups |-> << <<"x">> >>],
          [action |-> "add_habit",
           groups |-> << <<"x">> >>] >>,
       implicit |-> << <<"c", "a", "l", "l", "e", "d", " ", "x">> >>],
      [text |-> "start habit y x",
       chars |-> <<"s", "t", "a", "r", "t", " ", "h", "a", "b", "i", "t", " ",
                  "y", " ", "x">>,
       conversational |-> FALSE, keywords |-> TRUE,
       matches |-> <<>>,
       implicit |-> << <<"y", " ", "x">> >>],
      [text |-> "mark xy",
       chars |-> <<"m", "a", "r", "k", " ", "x", "y">>,
       conversational |-> FALSE, keywords |-> TRUE,
       matches |-> <<
          [action |-> "complete_habit",
           groups |-> << <<" ", "x", "y">> >>] >>,
       implicit |-> <<>>],
      [text |-> "mark x",
       chars |-> <<"m", "a", "r", "k", " ", "x">>,
       conversational |-> FALSE, keywords |-> TRUE,
       matches |-> <<
          [action |-> "complete_habit",
           groups |-> << <<" ", "x">> >>] >>,
       implicit |-> <<>>],
      [text |-> "delete xy",
       chars |-> <<"d", "e", "l", "e", "t", "e", " ", "x", "y">>,
       conversational |-> FALSE, keywords |-> FALSE,
       matches |-> <<
          [action |-> "delete_habit",
           groups |-> << <<"x", "y">> >>] >>,
       implicit |-> <<>>],
      [text |-> "rename xy to y x",
       chars |-> <<"r", "e", "n", "a", "m", "e", " ", "x", "y", " ", "t", "o",
                  " ", "y", " ", "x">>,
       conversational |-> FALSE, keywords |-> FALSE,
       matches |-> <<
          [action |-> "edit_habit",
           groups |-> << <<" ", "x", "y", " ">>,
                         <<" ", "y", " ", "x">> >>] >>,
       implicit |-> <<>>],
      [text |-> "edit xy",
       chars |-> <<"e", "d", "i", "t", " ", "x", "y">>,
       conversational |-> FALSE, keywords |-> FALSE,
       matches |-> <<
          [action |-> "edit_habit",
           groups |-> << <<" ", "x", "y">> >>] >>,
       implicit |-> <<>>],
      [text |-> "show my habits",
       chars |-> <<"s", "h", "o", "w", " ", "m", "y", " ", "h", "a", "b", "i",
                  "t", "s">>,
       conversational |-> FALSE, keywords |-> TRUE,
       matches |-> <<
          [action |-> "show_habits",
           groups |-> <<  >>],
          [action |-> "navigate_habits",
           groups |-> <<  >>],
          [action |-> "navigate_habits",
           groups |-> <<  >>] >>,
       implicit |-> <<>>],
      [text |-> "go to home",
       chars |-> <<"g", "o", " ", "t", "o", " ", "h", "o", "m", "e">>,
       conversational |-> FALSE, keywords |-> FALSE,
       matches |-> <<
          [action |-> "navigate_home",
           groups |-> <<  >>],
          [action |-> "navigate_home",
           groups |-> <<  >>] >>,
       implicit |-> <<>>],
      [text |-> "clear all data",
       chars |-> <<"c", "l", "e", "a", "r", " ", "a", "l", "l", " ", "d", "a",
                  "t", "a">>,
       conversational |-> FALSE, keywords |-> FALSE,
       matches |-> <<
          [action |-> "clear_data",
           groups |-> <<  >>] >>,
       implicit |-> <<>>],
      [text |-> "hello",
       chars |-> <<"h", "e", "l", "l", "o">>,
       conversational |-> TRUE, keywords |-> FALSE,
       matches |-> <<>>,
       implicit |-> <<>>],
      [text |-> "xy",
       chars |-> <<"x", "y">>,
       conversational |-> FALSE, keywords |-> FALSE,
       matches |-> <<>>,
       implicit |-> <<>>],
      [text |-> "can you add a habit: y x?",
       chars |-> <<"c", "a", "n", " ", "y", "o", "u", " ", "a", "d", "d", " ",
                  "a", " ", "h", "a", "b", "i", "t", ":", " ", "y", " ", "x",
                  "?">>,
       conversational |-> TRUE, keywords |-> TRUE,
       matches |-> <<>>,
       implicit |-> << <<"y", " ", "x">> >>],
      [text |-> "status on xy",
       chars |-> <<"s", "t", "a", "t", "u", "s", " ", "o", "n", " ", "x", "y">>,
       conversational |-> FALSE, keywords |-> FALSE,
       matches |-> <<
          [action |-> "habit_status",
           groups |-> << <<" ", "x", "y">> >>] >>,
       implicit |-> <<>>]
    }

\* Status queries, recorded in the same way: "how am I doing with <habit>",
\* the phrasing of test_intent_parser, and "progress with <habit>"
StatusQueries ==
    {
      [text |-> "how am i doing with xy",
       chars |-> <<"h", "o", "w", " ", "a", "m", " ", "i", " ", "d", "o", "i",
                  "n", "g", " ", "w", "i", "t", "h", " ", "x", "y">>,
       conversational |-> TRUE, keywords |-> FALSE,
       matches |-> <<
          [action |-> "habit_status",
           groups |-> << <<" ", "x", "y">> >>] >>,
       implicit |-> <<>>],
      [text |-> "how am i doing with y x",
       chars |-> <<"h", "o", "w", " ", "a", "m", " ", "i", " ", "d", "o", "i",
                  "n", "g", " ", "w", "i", "t", "h", " ", "y", " ", "x">>,
       conversational |-> TRUE, keywords |-> FALSE,
       matches |-> <<
          [action |-> "habit_status",
           groups |-> << <<" ", "y", " ", "x">> >>] >>,
       implicit |-> <<>>],
      [text |-> "how am i doing with meditation",
       chars |-> <<"h", "o", "w", " ", "a", "m", " ", "i", " ", "d", "o", "i",
                  "n", "g", " ", "w", "i", "t", "h", " ", "m", "e", "d", "i",
                  "t", "a", "t", "i", "o", "n">>,
       conversational |-> TRUE, keywords |-> TRUE,
       matches |-> <<
          [action |-> "edit_habit",
           groups |-> << <<"a", "t", "i", "o", "n">> >>],
          [action |-> "habit_status",
           groups |-> << <<" ", "m", "e", "d", "i", "t", "a", "t", "i", "o", "n">> >>] >>,
       implicit |-> <<>>],
      [text |-> "progress with xy",
       chars |-> <<"p", "r", "o", "g", "r", "e", "s", "s", " ", "w", "i", "t",
                  "h", " ", "x", "y">>,
       conversational |-> FALSE, keywords |-> FALSE,
       matches |-> <<
          [action |-> "habit_status",
           groups |-> << <<" ", "x", "y">> >>] >>,
       implicit |-> <<>>]
    }

\* a text without a character: no pattern is tried on it
Blank ==
    [text |-> "", chars |-> <<>>, conversational |-> FALSE,
     keywords |-> FALSE, matches |-> <<>>, implicit |-> <<>>]

\* Further utterances, recorded as in Utterances: navigation and app
\* control commands, completions that name a date, action texts that begin
\* with a conversational cue, and texts whose first matching pattern captures
\* a name of one character.
Commands ==
    {
      [text |-> "go to analytics",
       chars |-> <<"g", "o", " ", "t", "o", " ", "a", "n", "a", "l", "y", "t",
                  "i", "c", "s">>,
       conversational |-> FALSE, keywords |-> FALSE,
       matches |-> <<
          [action |-> "navigate_analytics",
           groups |-> <<  >>] >>,
       implicit |-> <<>>],
      [text |-> "open settings",
       chars |-> <<"o", "p", "e", "n", " ", "s", "e", "t", "t", "i", "n", "g",
                  "s">>,
       conversational |-> FALSE, keywords |-> FALSE,
       matches |-> <<
          [action |-> "navigate_settings",
           groups |-> <<  >>],
          [action |-> "navigate_settings",
           groups |-> <<  >>] >>,
       implicit |-> <<>>],
      [text |-> "log out",
       chars |-> <<"l", "o", "g", " ", "o", "u", "t">>,
       conversational |-> FALSE, keywords |-> FALSE,
       matches |-> <<
          [action |-> "logout",
           groups |-> <<  >>] >>,
       implicit |-> <<>>],
      [text |-> "refresh page",
       chars |-> <<"r", "e", "f", "r", "e", "s", "h", " ", "p", "a", "g", "e">>,
       conversational |-> FALSE, keywords |-> FALSE,
       matches |-> <<
          [action |-> "refresh_page",
           groups |-> <<  >>] >>,
       implicit |-> <<>>],
      [text |-> "mark xy as done on yesterday",
       chars |-> <<"m", "a", "r", "k", " ", "x", "y", " ", "a", "s", " ", "d",
                  "o", "n", "e", " ", "o", "n", " ", "y", "e", "s", "t", "e",
                  "r", "d", "a", "y">>,
       conversational |-> FALSE, keywords |-> TRUE,
       matches |-> <<
          [action |-> "complete_habit",
           groups |-> << <<" ", "x", "y", " ", "a", "s", " ", "d", "o", "n", "e", " ", "o", "n", " ", "y", "e", "s", "t", "e", "r", "d", "a", "y">> >>],
          [action |-> "complete_habit",
           groups |-> << <<" ", "x", "y", " ">> >>],
          [action |-> "complete_habit_date",
           groups |-> << <<" ", "x", "y", " ">>,
                         <<"y", "e", "s", "t", "e", "r", "d", "a", "y">> >>],
          [action |-> "complete_habit_date",
           groups |-> << <<" ", "x", "y", " ", "a", "s", " ">>,
                         <<"y", "e", "s", "t", "e", "r", "d", "a", "y">> >>] >>,
       implicit |-> <<>>],
      [text |-> "did xy yesterday",
       chars |-> <<"d", "i", "d", " ", "x", "y", " ", "y", "e", "s", "t", "e",
                  "r", "d", "a", "y">>,
       conversational |-> FALSE, keywords |-> FALSE,
       matches |-> <<
          [action |-> "complete_habit",
           groups |-> << <<" ", "x", "y", " ", "y", "e", "s", "t", "e", "r", "d", "a", "y">> >>],
          [action |-> "complete_habit_date",
           groups |-> << <<" ", "x", "y", " ">>,
                         <<>> >>] >>,
       implicit |-> <<>>],
      [text |-> "hello add a habit called xy",
       chars |-> <<"h", "e", "l", "l", "o", " ", "a", "d", "d", " ", "a", " ",
                  "h", "a", "b", "i", "t", " ", "c", "a", "l", "l", "e", "d",
                  " ", "x", "y">>,
       conversational |-> TRUE, keywords |-> TRUE,
       matches |-> <<
          [action |-> "add_habit",
           groups |-> << <<"x", "y">> >>],
          [action |-> "add_habit",
           groups |-> << <<"x", "y">> >>] >>,
       implicit |-> << <<"c", "a", "l", "l", "e", "d", " ", "x", "y">> >>],
      [text |-> "yes mark xy",
       chars |-> <<"y", "e", "s", " ", "m", "a", "r", "k", " ", "x", "y">>,
       conversational |-> TRUE, keywords |-> TRUE,
       matches |-> <<
          [action |-> "complete_habit",
           groups |-> << <<" ", "x", "y">> >>] >>,
       implicit |-> <<>>],
      [text |-> "thanks, delete xy",
       chars |-> <<"t", "h", "a", "n", "k", "s", ",", " ", "d", "e", "l", "e",
                  "t", "e", " ", "x", "y">>,
       conversational |-> TRUE, keywords |-> FALSE,
       matches |-> <<
          [action |-> "delete_habit",
           groups |-> << <<"x", "y">> >>] >>,
       implicit |-> <<>>],
      [text |-> "hello how are you",
       chars |-> <<"h", "e", "l", "l", "o", " ", "h", "o", "w", " ", "a", "r",
                  "e", " ", "y", "o", "u">>,
       conversational |-> TRUE, keywords |-> FALSE,
       matches |-> <<>>,
       implicit |-> <<>>],
      [text |-> "mark x. go to home",
       chars |-> <<"m", "a", "r", "k", " ", "x", ".", " ", "g", "o", " ", "t",
                  "o", " ", "h", "o", "m", "e">>,
       conversational |-> FALSE, keywords |-> TRUE,
       matches |-> <<
          [action |-> "complete_habit",
           groups |-> << <<" ", "x">> >>],
          [action |-> "navigate_home",
           groups |-> <<  >>],
          [action |-> "navigate_home",
           groups |-> <<  >>] >>,
       implicit |-> <<>>],
      [text |-> "delete x! log out",
       chars |-> <<"d", "e", "l", "e", "t", "e", " ", "x", "!", " ", "l", "o",
                  "g", " ", "o", "u", "t">>,
       conversational |-> FALSE, keywords |-> FALSE,
       matches |-> <<
          [action |-> "delete_habit",
           groups |-> << <<"x">> >>],
          [action |-> "logout",
           groups |-> <<  >>] >>,
       implicit |-> <<>>],
      [text |-> "mark xy. go to home",
       chars |-> <<"m", "a", "r", "k", " ", "x", "y", ".", " ", "g", "o", " ",
                  "t", "o", " ", "h", "o", "m", "e">>,
       conversational |-> FALSE, keywords |-> TRUE,
       matches |-> <<
          [action |-> "complete_habit",
           groups |-> << <<" ", "x", "y">> >>],
          [action |-> "navigate_home",
           groups |-> <<  >>],
          [action |-> "navigate_home",
           groups |-> <<  >>] >>,
       implicit |-> <<>>],
      [text |-> "go home, help",
       chars |-> <<"g", "o", " ", "h", "o", "m", "e", ",", " ", "h", "e", "l",
                  "p">>,
       conversational |-> FALSE, keywords |-> FALSE,
       matches |-> <<
          [action |-> "navigate_home",
           groups |-> <<  >>],
          [action |-> "show_help",
           groups |-> <<  >>] >>,
       implicit |-> <<>>]
    }

\* parse_user_intent: the convenience function over the global instance
parse_user_intent(u) == parse_intent(u)

(* ------------------------- VoiceCommandHandler -------------------------- *)

HabitActions ==
    { "add_habit", "complete_habit", "edit_habit", "delete_habit",
      "show_habits", "habit_status" }

\* a frontend_action: its 'type' and its 'navigate', "None" standing for None
Directive(type, navigate) == [type |-> type, navigate |-> navigate]

\* "'frontend_action': None", and a result without the key
NoDirective == Directive("None", "None")

\* the frontend_action of VoiceCommandHandler._handle_navigation
_handle_navigation(intent_result) ==
    LET target_page == intent_result.data.target_page
        page_mapping == [home |-> "/", habits |-> "/habits",
                         analytics |-> "/analytics", chat |-> "/chat",
                         settings |-> "/settings"]
        route == IF target_page \in DOMAIN page_mapping
                 THEN page_mapping[target_page] ELSE "/"
    IN  Directive("navigate", route)

\* the frontend_action each command handler returns
FrontendAction(intent_result) ==
    LET action == intent_result.action
    IN  CASE action \in NavigationActions -> _handle_navigation(intent_result)
          [] action = "logout" -> Directive("logout", "/login")
          [] action = "view_account" -> Directive("navigate", "/account")
          [] action = "refresh_page" -> Directive("refresh", "None")
          [] action = "clear_data" -> Directive("navigate", "/settings")
          [] action \in {"show_today", "show_calendar"} ->
                 Directive("navigate", "/habits")
          [] OTHER -> NoDirective

\* what a command returns: the handler's result and its frontend_action
VoiceResult(r, frontend) ==
    [db |-> r.db, outcome |-> r.outcome, resolved |-> r.resolved,
     dbfailed |-> r.dbfailed, frontend |-> frontend]

\* "if result.get('success'): result['frontend_action'] = {refresh_habits}"
RefreshHabits(result) ==
    VoiceResult(result,
                IF result.outcome.success
                THEN Directive("refresh_habits", "None") ELSE NoDirective)

\* VoiceCommandHandler._handle_habit_action
_handle_habit_action(db, intent_result, user_id, fail) ==
    RefreshHabits(execute_habit_action(db, intent_result, user_id, fail))

\* VoiceCommandHandler.execute_command
execute_command(db, intent_result, user_id, fail) ==
    LET action == intent_result.action
        Said(success, message) ==
            VoiceResult(Handled(db, Outcome(success, action, message, {},
                                            <<>>, <<>>, FALSE), 0, FALSE),
                        FrontendAction(intent_result))
    IN  CASE action \in HabitActions ->
                _handle_habit_action(db, intent_result, user_id, fail)
          [] action \in NavigationActions -> Said(TRUE, "taking_you_to_page")
          [] action = "logout" -> Said(TRUE, "logging_you_out")
          [] action = "view_account" -> Said(TRUE, "opening_account")
          [] action = "refresh_page" -> Said(TRUE, "refreshing_page")
          [] action = "clear_data" -> Said(FALSE, "use_settings_page")
          [] action = "show_help" -> Said(TRUE, "voice_commands")
          [] action = "app_info" -> Said(TRUE, "about_zelda")
          [] action = "show_today" -> Said(TRUE, "schedule_for_today")
          [] action = "show_calendar" -> Said(TRUE, "opening_calendar")
          [] OTHER -> Said(FALSE, "dont_know_how")

(* --------------------------- unified pipeline --------------------------- *)

\* "INSERT OR IGNORE INTO habits (name, user_id)": a row that collides with
\* UNIQUE(user_id, name) is ignored, and AUTOINCREMENT moves on either way
add_habit_to_db(db, habit_name, user_id, failed) ==
    IF failed THEN db
    ELSE IF \E h \in db.habits : h.user_id = user_id /\ h.name = habit_name
    THEN [db EXCEPT !.seq = @ + 1]
    ELSE [db EXCEPT !.seq = @ + 1,
                    !.habits = @ \cup {[id |-> db.seq + 1, user_id |-> user_id,
                                        name |-> habit_name]}]

\* re.sub(r'(daily|every day|everyday)$', '', habit_name).strip()
DropDaily(habit_name) ==
    LET DAILY == <<"d", "a", "i", "l", "y">>
        EVERY_DAY == <<"e", "v", "e", "r", "y", " ", "d", "a", "y">>
        EVERYDAY == <<"e", "v", "e", "r", "y", "d", "a", "y">>
        EndsWith(suffix) ==
            Len(habit_name) >= Len(suffix)
                /\ SubSeq(habit_name, Len(habit_name) - Len(suffix) + 1,
                          Len(habit_name)) = suffix
        Cut(suffix) == SubSeq(habit_name, 1, Len(habit_name) - Len(suffix))
    IN  Strip(IF EndsWith(EVERY_DAY) THEN Cut(EVERY_DAY)
              ELSE IF EndsWith(EVERYDAY) THEN Cut(EVERYDAY)
              ELSE IF EndsWith(DAILY) THEN Cut(DAILY)
              ELSE habit_name)

\* detect_and_create_items over the groups its habit_patterns capture in the
\* message: [db, habits], habits being created_items['habits']
RECURSIVE detect_and_create_items(_, _, _, _)
detect_and_create_items(db, found, user_id, failed) ==
    IF found = <<>> THEN [db |-> db, habits |-> <<>>]
    ELSE LET titled == Title(Strip(Head(found)))
             keep == titled # <<>> /\ Len(titled) > 2
             habit_name == DropDaily(titled)
             db1 == IF keep THEN add_habit_to_db(db, habit_name, user_id, failed)
                    ELSE db
             rest == detect_and_create_items(db1, Tail(found), user_id, failed)
         IN  [db |-> rest.db,
              habits |-> IF keep THEN <<habit_name>> \o rest.habits
                         ELSE rest.habits]

\* store_chat_message: one INSERT into chat_history, committed; an error is
\* printed and swallowed
store_chat_message(rows, user_id, failed) ==
    IF failed THEN rows ELSE [rows EXCEPT ![user_id] = @ + 1]

\* "action in [...] and confidence > 0.6": the actions process_unified_message
\* hands to the voice command handler
Gate(action, confidence) ==
    /\ action \in HabitActions \cup NavigationActions \cup OtherCommands
    /\ confidence > 60

\* a dispatched turn reaches the chat history whatever the command returned
ShouldStore_Always(voice_result) == TRUE

\* "if voice_result.get('success'): store_chat_message(...)"
ShouldStore(voice_result) == voice_result.outcome.success

\* the response dictionary and what the call did
Response(reply, action_taken, processing_type, path, frontend, appends, created, intent_result) ==
    [reply |-> reply, action_taken |-> action_taken,
     processing_type |-> processing_type, path |-> path,
     frontend |-> frontend, appends |-> appends, created |-> created,
     action |-> intent_result.action, confidence |-> intent_result.confidence,
     raised |-> FALSE]

\* the result of a call: the store, the chat history, the command's result
\* and the response
Processed(db, rows, r, intent_result, pipe) ==
    [db |-> db, rows |-> rows, outcome |-> r.outcome, resolved |-> r.resolved,
     dbfailed |-> r.dbfailed, intent |-> intent_result, pipe |-> pipe]

Unparsed == Intent("", NoData, 0)

\* an exception leaves process_unified_message
OnException_Propagates(db, rows, intent_result) ==
    Processed(db, rows, Handled(db, NoOutcome, 0, FALSE), intent_result,
              [Response("", FALSE, "", "error", NoDirective, 0, <<>>,
                        intent_result)
                 EXCEPT !.raised = TRUE])

\* the "except Exception" of process_unified_message
OnException(db, rows, intent_result) ==
    Processed(db, rows, Handled(db, NoOutcome, 0, FALSE), intent_result,
              Response("sorry_error_processing", FALSE, "error", "error",
                       NoDirective, 0, <<>>, intent_result))

\* what goes wrong in one call: the call that raises into the handler of
\* process_unified_message ("parse": parse_user_intent, "dispatch": the import
\* of the command handler, "reply": get_ai_reply after
\* get_ai_reply_with_context), the database call failing in the Dispatcher
\* (0: none), whether chat_history and the implicit INSERT fail, and whether
\* the conversation model answers
Fault(raise, db, chat_, create) ==
    [raise |-> raise, db |-> db, chat |-> chat_, create |-> create,
     model |-> "ok"]

\* the call of the conversation model fails: the server is not reachable
\* ("down"), or the request times out or ends in another error ("timeout")
ModelFails(f, how) == [f EXCEPT !.model = how]

\* assistant.get_fallback_response_with_context: one of the canned responses
get_fallback_response_with_context == "canned_reply"

\* the failure of the model call leaves get_ai_reply_with_context
get_ai_reply_with_context_Uncaught(model) ==
    IF model = "ok" THEN "ai_reply" ELSE "raise"

\* assistant.get_ai_reply_with_context: the reply of the model, or a canned
\* response when the request fails
get_ai_reply_with_context(model) ==
    CASE model = "ok" -> "ai_reply"
      [] model = "down" -> get_fallback_response_with_context
      [] OTHER -> get_fallback_response_with_context

\* assistant.get_ai_reply
get_ai_reply(model) == get_ai_reply_with_context(model)

\* "try: ai_reply = get_ai_reply_with_context(...)
\*  except Exception: ai_reply = get_ai_reply(message)"
AiReply(model) ==
    IF get_ai_reply_with_context(model) = "raise" THEN get_ai_reply(model)
    ELSE get_ai_reply_with_context(model)

\* f"Perfect! I've added '{habit_names}' to your habits tracker. {ai_reply}"
Perfect(ai_reply) ==
    IF ai_reply = "ai_reply" THEN "perfect_added_then_ai_reply"
    ELSE "perfect_added_then_canned_reply"

NoFault == Fault("none", 0, FALSE, FALSE)

\* process_unified_message once the command has returned voice_result
AfterCommand(voice_result, rows, user_id, f, intent_result) ==
    LET store == ShouldStore(voice_result)
    IN  Processed(voice_result.db,
                  IF store THEN store_chat_message(rows, user_id, f.chat)
                  ELSE rows,
                  voice_result, intent_result,
                  Response(voice_result.outcome.message, TRUE,
                           intent_result.action, "dispatch",
                           voice_result.frontend, IF store THEN 1 ELSE 0,
                           <<>>, intent_result))

\* the conversation fallback once detect_and_create_items has returned
AfterReply(detected, db, rows, user_id, f, intent_result) ==
    Processed(detected.db, store_chat_message(rows, user_id, f.chat),
              Handled(db, NoOutcome, 0, FALSE), intent_result,
              Response(IF detected.habits # <<>>
                       THEN Perfect(AiReply(f.model)) ELSE AiReply(f.model),
                       detected.habits # <<>>, intent_result.action,
                       "conversation", NoDirective, 1, detected.habits,
                       intent_result))

\* process_unified_message from the intent on: the gate, the command or the
\* conversation fallback, and the response
Respond(db, rows, u, user_id, f, intent_result) ==
    IF Gate(intent_result.action, intent_result.confidence)
    THEN IF f.raise = "dispatch" THEN OnException(db, rows, intent_result)
         ELSE AfterCommand(execute_command(db, intent_result, user_id, f.db),
                           rows, user_id, f, intent_result)
    ELSE IF f.raise = "reply" \/ AiReply(f.model) = "raise"
         THEN OnException(db, rows, intent_result)
         ELSE AfterReply(detect_and_create_items(db, u.implicit, user_id,
                                                 f.create),
                         db, rows, user_id, f, intent_result)

\* a spoken message never reaches the chat history
process_unified_message_Spoken(db, rows, u, user_id, is_voice, f) ==
    IF f.raise = "parse" THEN OnException(db, rows, Unparsed)
    ELSE Respond(db, rows, u, user_id, [f EXCEPT !.chat = @ \/ is_voice],
                 parse_user_intent(u))

\* process_unified_message; is_voice is printed and not used otherwise
process_unified_message(db, rows, u, user_id, is_voice, f) ==
    IF f.raise = "parse" THEN OnException(db, rows, Unparsed)
    ELSE Respond(db, rows, u, user_id, f, parse_user_intent(u))

(* ------------------------------- state --------------------------------- *)

\* the connections of the handler calls that run at the same time, one
\* connection per call (sqlite3.connect at the top of every handler)
Conns == { 1, 2 }

\* a connection no call has opened: op is the handler, pc the statement it
\* runs next, found and existing what its SELECTs fetched, tx the store as
\* its uncommitted transaction leaves it, writing whether it holds the write
\* lock, outcome what the handler returned, and overlapped whether another
\* call ran while this one did
Closed ==
    [op |-> "", pc |-> "closed", user_id |-> 0, data |-> NoData,
     found |-> NotFound, existing |-> {},
     tx |-> [habits |-> {}, entries |-> {}, seq |-> 0], writing |-> FALSE,
     outcome |-> NoOutcome, overlapped |-> FALSE]


\* no response: the call was not a call of process_unified_message
NoPipe ==
    [message |-> "", stored |-> FALSE]
        @@ Response("", FALSE, "", "", NoDirective, 0, <<>>, Unparsed)

\* the call that produced the current state: who called, the name it looked
\* up and the new name it gave, what it returned, the habit it resolved,
\* whether a database call failed in it, whether it repeats the call before
\* it, and the store it started from
Call(kind, user_id, query, r, repeat, pre, pipe) ==
    [kind |-> kind, user |-> user_id, query |-> query[1], new |-> query[2],
     date |-> query[3], outcome |-> r.outcome, resolved |-> r.resolved, dbfailed |-> r.dbfailed,
     repeat |-> repeat, pre |-> pre, pipe |-> pipe]

Init ==
    /\ habits = {}
    /\ entries = {}
    /\ seq = 0
    /\ chat = [u \in Users |-> 0]
    /\ last = Call("init", 1, << <<>>, <<>>, <<>> >>,
                   Handled(DB, NoOutcome, 0, FALSE), FALSE,
                   [habits |-> {}, entries |-> {}, seq |-> 0], NoPipe)
    /\ conns = [c \in Conns |-> Closed]


\* this call repeats the one before it: add_habit again with a name equal
\* ignoring case, or complete_habit again for the habit and date just completed
RepeatsLast(user_id, intent, r) ==
    /\ last.kind = "dispatch"
    /\ last.user = user_id
    /\ last.outcome.action = intent.action
    /\ \/ /\ intent.action = "add_habit"
          /\ last.outcome.message = "added"
          /\ intent.data.habit_name # NoneValue
          /\ Lower(last.outcome.habit_name) = Lower(Strip(intent.data.habit_name))
       \/ /\ intent.action = "complete_habit"
          /\ last.outcome.message = "marked_completed"
          /\ r.resolved = last.resolved
          /\ <<TargetDate(intent.data)>> = last.outcome.date

\* the name a handler looks up (old_name for a rename, else habit_name), the
\* new name of a rename, and the date handed over (<<>> for None)
Query(intent) ==
    LET d == intent.data
        Arg(n) == IF n = NoneValue THEN <<>> ELSE Strip(n)
        rename == intent.action = "edit_habit" /\ Arg(d.new_name) # <<>>
    IN  << Arg(IF rename THEN d.old_name ELSE d.habit_name),
           IF rename THEN Arg(d.new_name) ELSE <<>>,
           d.date >>

\* a direct call of execute_habit_action
ExecuteHabitAction ==
    \E user_id \in Users :
    \E intent \in DispatcherIntents(user_id) :
    \E fail \in FailPoints(user_id, intent) :
    \E r \in { execute_habit_action(DB, intent, user_id, fail) } :
        /\ r.db.seq <= MaxId
        /\ habits' = r.db.habits
        /\ entries' = r.db.entries
        /\ seq' = r.db.seq
        /\ last' = Call("dispatch", user_id, Query(intent), r,
                        RepeatsLast(user_id, intent, r), DB, NoPipe)
        /\ UNCHANGED <<chat, conns>>

\* the legacy calendar toggle of app.py
SaveHabitDate ==
    \E date \in {Today} :
    \E db \in { save_habit_date(DB, <<"X", "y">>, date, 1) } :
        /\ db.seq <= MaxId
        /\ habits' = db.habits
        /\ entries' = db.entries
        /\ seq' = db.seq
        /\ last' = Call("toggle", 1, << <<"X", "y">>, <<>>, <<>> >>,
                        Handled(db, NoOutcome, 0, FALSE), FALSE, DB, NoPipe)
        /\ UNCHANGED <<chat, conns>>

Next == ExecuteHabitAction \/ SaveHabitDate

Spec == Init /\ [][Next]_vars

\* the messages a user sends: user 2 sends a few of them
Sends(user_id, u) ==
    \/ user_id = 1
    \/ u.text \in { "add a habit called xy", "mark xy", "start habit y x",
                    "hello" }

\* the faults a call is run under; only user 1 meets them
Faults(user_id, u) ==
    { NoFault } \cup
    IF user_id # 1 THEN {}
    ELSE CASE u.text \in {"add a habit called xy", "hello"} ->
                { Fault("parse", 0, FALSE, FALSE),
                  Fault("dispatch", 0, FALSE, FALSE),
                  Fault("reply", 0, FALSE, FALSE),
                  Fault("none", 1, FALSE, FALSE),
                  Fault("none", 0, TRUE, FALSE) }
           [] u.text \in {"mark xy", "delete xy", "rename xy to y x"} ->
                { Fault("none", 1, FALSE, FALSE),
                  Fault("none", 6, FALSE, FALSE),
                  Fault("none", 0, TRUE, FALSE) }
           [] u.text \in {"start habit y x", "go to home"} ->
                { Fault("dispatch", 0, FALSE, FALSE),
                  Fault("reply", 0, FALSE, FALSE),
                  Fault("none", 0, TRUE, FALSE),
                  Fault("none", 0, FALSE, TRUE) }
           [] OTHER -> {}

\* a call of process_unified_message, for a typed or a spoken message
ProcessUnifiedMessage ==
    \E user_id \in Users :
    \E u \in { m \in Utterances : Sends(user_id, m) } :
    \E f \in Faults(user_id, u) :
    \E is_voice \in BOOLEAN :
    \E r \in { process_unified_message(DB, chat, u, user_id, is_voice, f) } :
        /\ r.db.seq <= MaxId
        /\ r.rows[user_id] <= MaxChat
        /\ habits' = r.db.habits
        /\ entries' = r.db.entries
        /\ seq' = r.db.seq
        /\ chat' = r.rows
        /\ last' = Call("pipeline", user_id, Query(r.intent), r, FALSE, DB,
                        [message |-> u.text, stored |-> r.rows # chat]
                            @@ r.pipe)
        /\ UNCHANGED conns

NextPipeline == ProcessUnifiedMessage \/ SaveHabitDate

SpecPipeline == Init /\ [][NextPipeline]_vars

\* the days the calendar is toggled on: the last MaxStreak days, and the
\* latest day that is more than 30 days ago
StatusDates == (Today - MaxStreak + 1)..Today \cup {Today - RecentDays - 1}

\* the calendar toggle of app.py on one of the last days of habit "Xy"
ToggleDay ==
    \E date \in StatusDates :
    \E db \in { save_habit_date(DB, <<"X", "y">>, date, 1) } :
        /\ db.seq <= MaxId
        /\ habits' = db.habits
        /\ entries' = db.entries
        /\ seq' = db.seq
        /\ last' = Call("toggle", 1, << <<"X", "y">>, <<>>, <<>> >>,
                        Handled(db, NoOutcome, 0, FALSE), FALSE, DB, NoPipe)
        /\ UNCHANGED <<chat, conns>>

\* a status query for habit "Xy" through execute_habit_action
GetHabitStatus ==
    \E intent \in { Named("habit_status", <<"X", "y">>) } :
    \E r \in { execute_habit_action(DB, intent, 1, 0) } :
        /\ habits' = r.db.habits
        /\ entries' = r.db.entries
        /\ seq' = r.db.seq
        /\ last' = Call("dispatch", 1, Query(intent), r, FALSE, DB, NoPipe)
        /\ UNCHANGED <<chat, conns>>

NextStatus == ToggleDay \/ GetHabitStatus

SpecStatus == Init /\ [][NextStatus]_vars

\* the whitespace a text is received with, before it and after it
Paddings == UNION { [1..n -> Whitespace] : n \in 0..MaxPad }

\* the texts handed to parse_intent
Phrases == Utterances \cup StatusQueries \cup Commands \cup {Blank}

\* what a call of the parser returned: the characters received and the intent
Parsed(received, intent_result) ==
    [received |-> received, intent |-> intent_result]

\* a call of parse_intent on a text with whitespace around it; the parser
\* keeps nothing from one call to the next, so one call is followed
ParseIntent ==
    \E u \in Phrases :
    \E left \in Paddings :
    \E right \in Paddings :
    \E received \in { [u EXCEPT !.chars = left \o u.chars \o right] } :
        /\ last.kind = "init"
        /\ last' = Call("parse", 1, << <<>>, <<>>, <<>> >>,
                        Handled(DB, NoOutcome, 0, FALSE), FALSE, DB,
                        Parsed(received.chars, parse_intent(received)))
        /\ UNCHANGED <<habits, entries, seq, chat, conns>>

\* the words raw habit names are made of
NameWords ==
    { <<"a", "d", "d">>, <<"x", "y">>, <<"'", "x", "\"", "y">>,
      <<"r", "o", "u", "t", "i", "n", "e">>, <<"d", "a", "i", "l", "y">>,
      <<"t", "h", "e">> }

\* raw habit names: up to MaxWords words, with whitespace before them and
\* at most a space after them
RawNames ==
    { left \o Join(ws) \o right :
        ws \in UNION { [1..n -> NameWords] : n \in 1..MaxWords },
        left \in Paddings, right \in { <<>>, <<SPACE>> } }

\* what a call of the normalizer returned: the raw name and its clean form
Cleaned(raw, cleaned) == [raw |-> raw, cleaned |-> cleaned]

\* a call of _clean_habit_name
CleanHabitName ==
    \E raw \in RawNames :
        /\ last.kind = "init"
        /\ last' = Call("clean", 1, << <<>>, <<>>, <<>> >>,
                        Handled(DB, NoOutcome, 0, FALSE), FALSE, DB,
                        Cleaned(raw, _clean_habit_name(raw)))
        /\ UNCHANGED <<habits, entries, seq, chat, conns>>

NextParse == ParseIntent \/ CleanHabitName

SpecParse == Init /\ [][NextParse]_vars

(* ---------------------------- entry points ----------------------------- *)

\* "if len(transcript) < 3" of handle_voice
MinTranscript == 3

\* what an entry point answered: the result, the HTTP status, and whether it
\* called process_unified_message
Http(result, status, classified) ==
    [result |-> result, status |-> status, classified |-> classified]

\* an entry point answers without calling process_unified_message
Declined(db, rows, reply, status) ==
    Http(Processed(db, rows, Handled(db, NoOutcome, 0, FALSE), Unparsed,
                   Response(reply, FALSE, "error", "refused", NoDirective, 0,
                            <<>>, Unparsed)),
         status, FALSE)

\* what transcribe_audio_bytes returned: success, the text, and the
\* confidence score in percent
Transcription(success, u, confidence) ==
    [success |-> success, u |-> u, confidence |-> confidence]

\* a message that was typed: no transcriber scored it
Typed(u) == Transcription(TRUE, u, 100)

\* chat_api, POST /api/chat; piped is what process_unified_message returns
\* for the message
chat_api(db, rows, heard, piped) ==
    IF Strip(heard.u.chars) = <<>>
    THEN Declined(db, rows, "no_message_provided", 400)
    ELSE Http(piped, 200, TRUE)

\* process_voice_command, POST /api/voice/process: a command the client
\* transcribed
process_voice_command(db, rows, heard, piped) ==
    IF Strip(heard.u.chars) = <<>>
    THEN Declined(db, rows, "no_command_provided", 400)
    ELSE Http(piped, 200, TRUE)

\* process_voice_audio, POST /api/voice/audio
process_voice_audio(db, rows, heard, piped) ==
    IF ~heard.success
    THEN Declined(db, rows, "audio_transcription_failed", 500)
    ELSE IF Strip(heard.u.chars) = <<>>
    THEN Declined(db, rows, "no_speech_detected", 400)
    ELSE Http(piped, 200, TRUE)

\* handle_voice, POST /api/voice, for audio that Whisper transcribes
handle_voice(db, rows, heard, piped) ==
    IF Len(Strip(heard.u.chars)) < MinTranscript
    THEN Declined(db, rows, "too_short_to_understand", 400)
    ELSE Http(piped, 200, TRUE)

\* the texts that are typed or spoken
Spoken ==
    { u \in Utterances :
        u.text \in { "xy", "hello", "add a habit called xy", "delete xy",
                     "can you add a habit: y x?" } }
    \cup { u \in Commands :
              u.text \in { "go to analytics", "log out", "refresh page",
                           "mark xy as done on yesterday",
                           "hello add a habit called xy", "yes mark xy",
                           "hello how are you" } }
    \cup {Blank}

\* what the transcriber returns for a recording, with a confidence score of
\* 0 or 90 percent
Recordings ==
    { Transcription(TRUE, u, c) : u \in Spoken, c \in { 0, 90 } }
        \cup { Transcription(FALSE, Blank, 0) }

\* the faults a request is run under
EntryFaults(heard) ==
    { NoFault, ModelFails(NoFault, "down"), ModelFails(NoFault, "timeout") }
        \cup IF heard.u.text \in { "hello", "delete xy" }
             THEN { Fault("reply", 0, FALSE, FALSE),
                    Fault("none", 1, FALSE, FALSE),
                    ModelFails(Fault("none", 0, TRUE, FALSE), "down") }
             ELSE {}

\* process_unified_message for the message, called with is_voice and without
Both(db, rows, u, user_id, f) ==
    [is_voice \in BOOLEAN |->
        process_unified_message(db, rows, u, user_id, is_voice, f)]

\* the state after a request: answered is what the entry point returned and
\* other what process_unified_message returns for the other value of is_voice
Answer(entry, user_id, heard, is_voice, f, answered, other) ==
    LET r == answered.result
    IN  /\ r.db.seq <= MaxId
        /\ r.rows[user_id] <= MaxChat
        /\ habits' = r.db.habits
        /\ entries' = r.db.entries
        /\ seq' = r.db.seq
        /\ chat' = r.rows
        /\ last' = Call(entry, user_id, Query(r.intent), r, FALSE, DB,
                        [message |-> heard.u.text, stored |-> r.rows # chat,
                         transcript |-> Strip(heard.u.chars),
                         score |-> heard.confidence, is_voice |-> is_voice,
                         fault |-> f, status |-> answered.status,
                         classified |-> answered.classified,
                         twin |-> IF answered.classified THEN other ELSE r]
                            @@ r.pipe)
        /\ UNCHANGED conns

\* a typed message sent to /api/chat
ChatApi(user_id, heard, f, both) ==
    /\ heard \in { Typed(u) : u \in Spoken }
    /\ Answer("chat_api", user_id, heard, FALSE, f,
              chat_api(DB, chat, heard, both[FALSE]), both[TRUE])

\* a command sent as text to /api/voice/process
ProcessVoiceCommand(user_id, heard, f, both) ==
    /\ heard \in { Typed(u) : u \in Spoken }
    /\ Answer("process_voice_command", user_id, heard, TRUE, f,
              process_voice_command(DB, chat, heard, both[TRUE]),
              both[FALSE])

\* a recording sent to /api/voice/audio
ProcessVoiceAudio(user_id, heard, f, both) ==
    /\ heard \in Recordings
    /\ Answer("process_voice_audio", user_id, heard, TRUE, f,
              process_voice_audio(DB, chat, heard, both[TRUE]), both[FALSE])

\* a recording sent to /api/voice that Whisper transcribes
HandleVoice(user_id, heard, f, both) ==
    /\ heard \in Recordings
    /\ heard.success
    /\ Answer("handle_voice", user_id, heard, TRUE, f,
              handle_voice(DB, chat, heard, both[TRUE]), both[FALSE])

\* a request to one of the four entry points: the user, what was typed or
\* heard, what goes wrong, and what process_unified_message returns for the
\* message (the call is written once for the four of them)
NextEntry ==
    \E user_id \in { 1 } :
    \E heard \in Recordings \cup { Typed(u) : u \in Spoken } :
    \E f \in EntryFaults(heard) :
    \E both \in { Both(DB, chat, heard.u, user_id, f) } :
        \/ ChatApi(user_id, heard, f, both)
        \/ ProcessVoiceCommand(user_id, heard, f, both)
        \/ ProcessVoiceAudio(user_id, heard, f, both)
        \/ HandleVoice(user_id, heard, f, both)

SpecEntry == Init /\ [][NextEntry]_vars

\* the entry points that take speech
VoiceEntries ==
    { "process_voice_command", "process_voice_audio", "handle_voice" }

(* ------------------------- concurrent handlers -------------------------- *)

\* Every handler opens its own connection.  A SELECT reads the committed
\* store; the first INSERT, UPDATE or DELETE of a call opens a transaction
\* and takes the write lock of the database file, which one connection holds
\* at a time; the rows it writes are seen by the others once it has
\* committed.  PRAGMA foreign_keys is never set, so the FOREIGN KEY clauses
\* of the schema are not enforced.  The SELECTs of the resolver are taken as
\* one read.

\* a table without the UNIQUE(user_id, name) constraint
UniqueViolation_Unconstrained(db, user_id, name) == FALSE

\* UNIQUE(user_id, name) of habits rejects a row: sqlite3.IntegrityError
UniqueViolation(db, user_id, name) ==
    \E h \in db.habits : h.user_id = user_id /\ h.name = name

\* UNIQUE(user_id, habit_id, date) of habit_entries rejects a row
EntryViolation(db, user_id, habit_id, date) ==
    \E e \in db.entries :
        e.user_id = user_id /\ e.habit_id = habit_id /\ e.date = date

\* another connection holds the write lock
Locked(c) == \E o \in Conns \ {c} : conns[o].writing

\* the calls that have not returned, other than c
Running(c) ==
    { o \in Conns \ {c} : conns[o].pc \notin { "closed", "returned" } }

\* the result of a handler's "except sqlite3.Error"
Sorry(op) ==
    Outcome(FALSE, op,
            CASE op = "add_habit" -> "sorry_add"
              [] op = "complete_habit" -> "sorry_complete"
              [] OTHER -> "sorry_delete",
            {}, <<>>, <<>>, TRUE)

\* the result a handler returns after its commit
Succeeded(call) ==
    CASE call.op = "add_habit" ->
             Outcome(TRUE, "add_habit", "added", {"created"},
                     Strip(call.data.habit_name), <<>>, FALSE)
      [] call.op = "complete_habit" ->
             Outcome(TRUE, "complete_habit", "marked_completed",
                     {"completed"}, call.found.name,
                     <<TargetDate(call.data)>>, FALSE)
      [] OTHER ->
             Outcome(TRUE, "delete_habit", "removed", {"deleted"},
                     call.found.name, <<>>, FALSE)

\* the handler returns without a commit: the connection is closed or dropped
\* and what its transaction wrote is rolled back
Return(c, outcome) ==
    /\ conns' = [conns EXCEPT ![c].pc = "returned", ![c].writing = FALSE,
                              ![c].outcome = outcome]
    /\ UNCHANGED <<habits, entries, seq, chat, last>>

\* the handler goes on to its next statement with what it fetched
Fetch(c, found, existing, pc) ==
    /\ conns' = [conns EXCEPT ![c].pc = pc, ![c].found = found,
                              ![c].existing = existing]
    /\ UNCHANGED <<habits, entries, seq, chat, last>>

\* an INSERT, UPDATE or DELETE: tx is the store as the transaction leaves it
Write(c, tx, pc) ==
    /\ conns' = [conns EXCEPT ![c].pc = pc, ![c].tx = tx,
                              ![c].writing = TRUE]
    /\ UNCHANGED <<habits, entries, seq, chat, last>>

\* a handler is called and connects: add_habit, complete_habit or
\* delete_habit of habit "Xy" for user 1
Connect ==
    \E c \in Conns :
    \E op \in { "add_habit", "complete_habit", "delete_habit" } :
    \E date \in DateInputs :
        /\ conns[c].pc \in { "closed", "returned" }
        /\ op # "complete_habit" => date = <<>>
        /\ op = "add_habit" =>
               seq + Cardinality({ o \in Running(c) :
                                     conns[o].op = "add_habit" }) < MaxId
        /\ conns' =
               [o \in Conns |->
                   IF o = c
                   THEN [Closed EXCEPT
                            !.op = op,
                            !.pc = IF op = "add_habit" THEN "check"
                                   ELSE "find",
                            !.user_id = 1,
                            !.data = Data(<<"X", "y">>, <<>>, <<>>, date),
                            !.overlapped = Running(c) # {}]
                   ELSE IF o \in Running(c)
                   THEN [conns[o] EXCEPT !.overlapped = TRUE]
                   ELSE conns[o]]
        /\ UNCHANGED <<habits, entries, seq, chat, last>>

\* _add_habit: the SELECT of the duplicate check
AddCheck ==
    \E c \in Conns :
        /\ conns[c].pc = "check"
        /\ LET habit_name == Strip(conns[c].data.habit_name)
           IN  IF ExistingHabit(DB, habit_name, conns[c].user_id)
               THEN Return(c, Outcome(FALSE, "add_habit", "already_have",
                                      {"already_exists"}, habit_name, <<>>,
                                      FALSE))
               ELSE Fetch(c, NotFound, {}, "insert")

\* _add_habit: the INSERT
AddInsert ==
    \E c \in Conns :
        /\ conns[c].pc = "insert"
        /\ ~Locked(c)
        /\ LET habit_name == Strip(conns[c].data.habit_name)
               user_id == conns[c].user_id
           IN  IF UniqueViolation(DB, user_id, habit_name)
               THEN Return(c, Sorry("add_habit"))
               ELSE Write(c, [DB EXCEPT !.habits =
                                 @ \cup {[id |-> DB.seq + 1,
                                          user_id |-> user_id,
                                          name |-> habit_name]},
                                        !.seq = DB.seq + 1],
                          "commit")

\* _complete_habit and _delete_habit: the call of the resolver
Find ==
    \E c \in Conns :
        /\ conns[c].pc = "find"
        /\ LET habit_name == Strip(conns[c].data.habit_name)
               found == _find_habit_by_name(DB, habit_name, conns[c].user_id, 0)
               complete == conns[c].op = "complete_habit"
           IN  IF found.id = 0
               THEN Return(c, Outcome(FALSE, conns[c].op,
                                      IF complete THEN "not_found_create"
                                      ELSE "not_found_delete",
                                      {"not_found"}, habit_name, <<>>, FALSE))
               ELSE Fetch(c, [id |-> found.id, name |-> found.name], {},
                          IF complete THEN "select" ELSE "delete_entries")

\* _complete_habit: the SELECT of the entry of the date
CompleteSelect ==
    \E c \in Conns :
        /\ conns[c].pc = "select"
        /\ LET call == conns[c]
               existing == { e \in entries :
                               /\ e.user_id = call.user_id
                               /\ e.habit_id = call.found.id
                               /\ e.date = TargetDate(call.data) }
           IN  IF AlreadyCompleted(existing)
               THEN Return(c, Outcome(FALSE, "complete_habit",
                                      "already_completed",
                                      {"already_completed"}, call.found.name,
                                      <<TargetDate(call.data)>>, FALSE))
               ELSE Fetch(c, call.found, existing, "mark")

\* _complete_habit: the UPDATE of the entry it fetched, or the INSERT
CompleteMark ==
    \E c \in Conns :
        /\ conns[c].pc = "mark"
        /\ ~Locked(c)
        /\ LET call == conns[c]
               target_date == TargetDate(call.data)
               Key(e) == /\ e.user_id = call.user_id
                         /\ e.habit_id = call.found.id
                         /\ e.date = target_date
           IN  IF call.existing # {}
               THEN Write(c, [DB EXCEPT !.entries =
                                 { IF Key(e) THEN [e EXCEPT !.completed = TRUE]
                                   ELSE e : e \in @ }],
                          "commit")
               ELSE IF EntryViolation(DB, call.user_id, call.found.id,
                                      target_date)
               THEN Return(c, Sorry("complete_habit"))
               ELSE Write(c, [DB EXCEPT !.entries =
                                 @ \cup {[user_id |-> call.user_id,
                                          habit_id |-> call.found.id,
                                          date |-> target_date,
                                          completed |-> TRUE]}],
                          "commit")

\* _delete_habit: the DELETE of the entries
DeleteTheEntries ==
    \E c \in Conns :
        /\ conns[c].pc = "delete_entries"
        /\ ~Locked(c)
        /\ Write(c, DeleteEntries(DB, conns[c].found.id), "delete_habit")

\* _delete_habit: the DELETE of the habit
DeleteTheHabit ==
    \E c \in Conns :
        /\ conns[c].pc = "delete_habit"
        /\ Write(c, DeleteHabitRow(conns[c].tx, conns[c].found.id), "commit")

\* conn.commit() and the return that follows it
CommitCall ==
    \E c \in Conns :
        /\ conns[c].pc = "commit"
        /\ habits' = Commit(DB, conns[c].tx).habits
        /\ entries' = Commit(DB, conns[c].tx).entries
        /\ seq' = Commit(DB, conns[c].tx).seq
        /\ conns' = [conns EXCEPT ![c].pc = "returned", ![c].writing = FALSE,
                                  ![c].outcome = Succeeded(conns[c])]
        /\ UNCHANGED <<chat, last>>

\* the write lock is not released within the timeout of the connection:
\* sqlite3.OperationalError, database is locked
Busy ==
    \E c \in Conns :
        /\ conns[c].pc \in { "insert", "mark", "delete_entries" }
        /\ Locked(c)
        /\ Return(c, Sorry(conns[c].op))

NextRace ==
    \/ Connect
    \/ AddCheck
    \/ AddInsert
    \/ Find
    \/ CompleteSelect
    \/ CompleteMark
    \/ DeleteTheEntries
    \/ DeleteTheHabit
    \/ CommitCall
    \/ Busy

SpecRace == Init /\ [][NextRace]_vars

(* ------------------------------ claims --------------------------------- *)

\* the apologies of the handlers' "except sqlite3.Error"
GenericMessages ==
    { "sorry_add", "sorry_complete", "sorry_rename", "sorry_delete",
      "sorry_show", "sorry_status" }

StoreUnchanged ==
    /\ habits = last.pre.habits
    /\ entries = last.pre.entries
    /\ seq = last.pre.seq

Dispatched(action) == last.kind = "dispatch" /\ last.outcome.action = action

Piped == last.kind = "pipeline"

MutatingActions ==
    { "add_habit", "complete_habit", "edit_habit", "delete_habit" }

C2_WitnessBelow ==
    /\ Piped
    /\ last.pipe.confidence = 60
    /\ last.pipe.path = "conversation"
    /\ habits # {}

\* C8: process_unified_message never raises; an exception that reaches its
\* handler becomes the generic apology with action_taken=false and leaves
\* the store untouched; a command that fails in the Dispatcher (validation,
\* not found, duplicate, database error) comes back as an outcome with
\* success=false whose message is the reply.
C8_NeverRaises ==
    Piped =>
        /\ ~last.pipe.raised
        /\ last.pipe.path = "error" =>
              /\ last.pipe.reply = "sorry_error_processing"
              /\ ~last.pipe.action_taken
              /\ last.pipe.processing_type = "error"
              /\ StoreUnchanged
        /\ (last.pipe.path = "dispatch" /\ ~last.outcome.success) =>
              /\ last.pipe.reply = last.outcome.message
              /\ last.pipe.frontend.type \in {"None", "navigate"}
        /\ last.dbfailed =>
              /\ last.pipe.path = "dispatch"
              /\ ~last.outcome.success
              /\ last.outcome.message \in GenericMessages
              /\ StoreUnchanged

\* an exception has reached the handler of process_unified_message
C8_Witness ==
    /\ Piped
    /\ last.pipe.path = "error"
    /\ last.pipe.reply = "sorry_error_processing"

\* a database error inside the Dispatcher has come back as an outcome
C8_WitnessDispatcher ==
    /\ Piped
    /\ last.dbfailed
    /\ last.outcome.message = "sorry_delete"

\* no two habits of one user have names equal ignoring case
UniqueIgnoringCase(hs) ==
    \A h1 \in hs : \A h2 \in hs :
        (h1.user_id = h2.user_id /\ Lower(h1.name) = Lower(h2.name))
            => h1.id = h2.id

\* C3: no Dispatcher add_habit or rename ever leaves a user with two habits
\* whose names are equal ignoring case.
C3_UniqueIgnoringCase ==
    (last.kind = "dispatch" /\ UniqueIgnoringCase(last.pre.habits))
        => UniqueIgnoringCase(habits)

\* C4: when add_habit is called again with a name equal, ignoring case, to
\* the one just added, the second call returns success=false with
\* already_exists, changes nothing, and one habit of that name is stored.
C4_SecondAddRejected ==
    (Dispatched("add_habit") /\ last.repeat /\ ~last.dbfailed)
        => /\ ~last.outcome.success
           /\ "already_exists" \in last.outcome.flags
           /\ StoreUnchanged
           /\ Cardinality({ h \in habits :
                              /\ h.user_id = last.user
                              /\ Lower(h.name) = Lower(last.query) }) = 1

\* C5: a completion leaves exactly one entry for (habit, date), completed;
\* completing the same habit again for the same date returns success=false
\* with already_completed and changes nothing in the store.
C5_CompleteTwice ==
    /\ (Dispatched("complete_habit") /\ last.resolved # 0)
          => LET es == { e \in entries : /\ e.user_id = last.user
                                         /\ e.habit_id = last.resolved
                                         /\ <<e.date>> = last.outcome.date }
             IN  Cardinality(es) = 1 /\ \A e \in es : e.completed
    /\ (Dispatched("complete_habit") /\ last.repeat)
          => /\ ~last.outcome.success
             /\ last.outcome.message = "already_completed"
             /\ "already_completed" \in last.outcome.flags
             /\ StoreUnchanged

\* a second completion of the habit and date just completed has been made
C5_Witness ==
    /\ Dispatched("complete_habit")
    /\ last.repeat
    /\ last.outcome.message = "already_completed"

\* C6: after a successful delete_habit the resolved habit is no longer stored
\* and none of its entries remains; a delete_habit whose name resolves to no
\* habit returns success=false and leaves habits and entries unchanged.
C6_DeleteCascades ==
    /\ (Dispatched("delete_habit") /\ last.outcome.success)
          => /\ \E h \in last.pre.habits :
                    h.id = last.resolved /\ h.user_id = last.user
             /\ ~\E h \in habits : h.id = last.resolved
             /\ ~\E e \in entries : e.habit_id = last.resolved
    /\ (/\ Dispatched("delete_habit")
        /\ ~last.dbfailed
        /\ last.query # <<>>
        /\ _find_habit_by_name(last.pre, last.query, last.user, 0).id = 0)
          => ~last.outcome.success /\ StoreUnchanged

\* a habit that had entries has been deleted
C6_Witness ==
    /\ Dispatched("delete_habit")
    /\ last.outcome.success
    /\ \E e \in last.pre.entries : e.habit_id = last.resolved
    /\ habits # {}

\* a delete_habit of a name that resolves to nothing has been refused
C6_WitnessNotFound ==
    /\ Dispatched("delete_habit")
    /\ "not_found" \in last.outcome.flags
    /\ habits # {}

\* two names unrelated for the resolver: not equal ignoring case, neither
\* contains the other ignoring case, and no whitespace-separated word in common
Unrelated(a, b) ==
    LET la == Lower(a)
        lb == Lower(b)
    IN  /\ la # lb
        /\ ~Contains(la, lb)
        /\ ~Contains(lb, la)
        /\ SplitWords(la) \cap SplitWords(lb) = {}

\* C7 as claimed: after a delete, resolving the deleted habit's name against
\* the remaining habits returns null (checked for deletes from a store whose
\* names are unique ignoring case).
C7_ResolvesToNull ==
    (/\ Dispatched("delete_habit")
     /\ last.outcome.success
     /\ UniqueIgnoringCase(last.pre.habits))
        => _find_habit_by_name(DB, last.outcome.habit_name, last.user, 0).id = 0

\* C7 as amended: after a delete, resolving the deleted habit's name never
\* returns the deleted habit, returns only a stored habit of the user, and
\* returns null exactly when no remaining habit of the user has a name equal
\* to it ignoring case, containing it, contained in it, or sharing a word.
C7_ResolvesToRelatedOrNull ==
    (Dispatched("delete_habit") /\ last.outcome.success)
        => LET name == last.outcome.habit_name
               res == _find_habit_by_name(DB, name, last.user, 0)
           IN  /\ res.id # last.resolved
               /\ res.id # 0 =>
                     \E h \in habits : /\ h.id = res.id
                                       /\ h.name = res.name
                                       /\ h.user_id = last.user
                                       /\ ~Unrelated(name, h.name)
               /\ res.id = 0 <=>
                     \A h \in UserRows(DB, last.user) : Unrelated(name, h.name)

\* a habit has been deleted while a habit sharing only a word with it remains
C7_Witness ==
    /\ Dispatched("delete_habit")
    /\ last.outcome.success
    /\ \E h \in habits :
          /\ h.user_id = last.user
          /\ ~PartialMatch(Lower(last.outcome.habit_name), Lower(h.name))
          /\ ~Unrelated(last.outcome.habit_name, h.name)

\* C9: when a database call fails inside a handler, the handler returns
\* success=false with its generic apology, the error is reported in the
\* 'error' field, and the store is exactly as it was before the call.
C9_FailureIsAtomic ==
    (last.kind = "dispatch" /\ last.dbfailed)
        => /\ ~last.outcome.success
           /\ last.outcome.message \in GenericMessages
           /\ last.outcome.error
           /\ last.outcome.flags = {}
           /\ StoreUnchanged

\* the second DELETE of a delete_habit failed for a habit that had entries
C9_Witness ==
    /\ Dispatched("delete_habit")
    /\ last.dbfailed
    /\ \E h \in habits : /\ h.name = last.query
                         /\ \E e \in entries : e.habit_id = h.id

\* C10: called on a store where names are unique ignoring case, a rename
\* whose old name resolves to no habit fails and changes nothing; a rename to a name equal, ignoring case, to that of a different
\* habit of the user fails and changes nothing; otherwise the resolved
\* habit's name becomes the new name.
C10_EditHabit ==
    LET found == _find_habit_by_name(last.pre, last.query, last.user, 0)
        Collides ==
            \E h \in last.pre.habits : /\ h.user_id = last.user
                                       /\ h.id # found.id
                                       /\ Lower(h.name) = Lower(last.new)
        Refused == ~last.outcome.success /\ StoreUnchanged
    IN  (/\ Dispatched("edit_habit")
         /\ UniqueIgnoringCase(last.pre.habits)
         /\ ~last.dbfailed
         /\ last.query # <<>>
         /\ last.new # <<>>)
        => /\ found.id = 0 => Refused
           /\ (found.id # 0 /\ Collides) => Refused
           /\ (found.id # 0 /\ ~Collides) =>
                 \E h \in habits : h.id = found.id /\ h.name = last.new

\* C11: complete_habit with a name that resolves to no habit returns
\* success=false, suggests creating the habit, and leaves habits and entries
\* as they were; complete_habit with a resolved habit and no date leaves a
\* completed entry for the habit on today's date and reports that date.
C11_CompleteResolvesOrFails ==
    (Dispatched("complete_habit") /\ last.query # <<>> /\ ~last.dbfailed)
        => LET res == _find_habit_by_name(last.pre, last.query, last.user, 0)
           IN  /\ res.id = 0 =>
                     /\ ~last.outcome.success
                     /\ last.outcome.message = "not_found_create"
                     /\ "not_found" \in last.outcome.flags
                     /\ StoreUnchanged
               /\ (res.id # 0 /\ last.date = <<>>) =>
                     /\ last.resolved = res.id
                     /\ last.outcome.date = <<Today>>
                     /\ \E e \in entries : /\ e.user_id = last.user
                                           /\ e.habit_id = res.id
                                           /\ e.date = Today
                                           /\ e.completed

\* a completion without a date has been recorded for a resolved habit
C11_Witness ==
    /\ Dispatched("complete_habit")
    /\ last.date = <<>>
    /\ last.outcome.success
    /\ \E e \in entries \ last.pre.entries : e.date = Today

\* a completion has named a habit that a store with habits does not hold
C11_WitnessNotFound ==
    /\ Dispatched("complete_habit")
    /\ last.outcome.message = "not_found_create"
    /\ habits # {}

\* C12: the resolver returns null or the id and name of a habit stored for
\* the querying user, for every name looked up in every store; the habit a
\* handler resolved is a habit of the calling user in the store it started
\* from.
C12_ResolvesToStoredHabitOfUser ==
    /\ \A user_id \in Users : \A habit_name \in LookupNames :
          LET res == _find_habit_by_name(DB, habit_name, user_id, 0)
          IN  \/ res = [id |-> 0, name |-> <<>>, failed |-> FALSE]
              \/ \E h \in habits : /\ h.id = res.id
                                    /\ h.name = res.name
                                    /\ h.user_id = user_id
    /\ (last.resolved # 0 /\ last.outcome.action # "add_habit") =>
          \E h \in last.pre.habits : /\ h.id = last.resolved
                                     /\ h.user_id = last.user

\* a user has looked up a name that only a habit of another user matches,
\* and the resolver has found nothing
C12_Witness ==
    /\ Piped
    /\ last.pipe.path = "dispatch"
    /\ "not_found" \in last.outcome.flags
    /\ \E h \in last.pre.habits : /\ h.user_id # last.user
                                  /\ Lower(h.name) = Lower(last.query)

\* C13: add_habit with a valid name that no stored habit of the user equals
\* ignoring case succeeds and stores one new habit under that name, also when
\* the name contains, is contained in, or shares a word with the name of a
\* stored habit.
C13_AddIsNotFuzzy ==
    (/\ Dispatched("add_habit")
     /\ ~last.dbfailed
     /\ Len(last.query) >= 2
     /\ \A h \in UserRows(last.pre, last.user) :
            Lower(h.name) # Lower(last.query))
        => /\ last.outcome.success
           /\ "created" \in last.outcome.flags
           /\ \E h \in habits \ last.pre.habits :
                  /\ h.name = last.query
                  /\ h.user_id = last.user
                  /\ habits = last.pre.habits \cup {h}

\* a habit has been added whose name the resolver matches to a stored habit
C13_Witness ==
    /\ Dispatched("add_habit")
    /\ last.outcome.success
    /\ \E h \in UserRows(last.pre, last.user) :
          /\ Lower(h.name) # Lower(last.query)
          /\ ~Unrelated(last.query, h.name)

\* C14: the current streak habit_status reports is the number of entries of
\* the habit that are completed and have no uncompleted entry at a later
\* date: the completed entries leading the habit's entries in descending date
\* order; days without an entry are passed over. Entries (today, true),
\* (yesterday, true), (2 days ago, false), (3 days ago, true) give 2.
C14_StreakIsLeadingCompleted ==
    (Dispatched("habit_status") /\ last.outcome.success)
        => LET es == { e \in entries : e.habit_id = last.resolved }
               leading == { e \in es :
                              /\ e.completed
                              /\ \A f \in es : f.date > e.date => f.completed }
           IN  /\ last.outcome.stats[3] = Cardinality(leading)
               /\ { <<e.date, e.completed>> : e \in es }
                      = { <<Today, TRUE>>, <<Today - 1, TRUE>>,
                          <<Today - 2, FALSE>>, <<Today - 3, TRUE>> }
                    => last.outcome.stats[3] = 2

\* C15: parse_intent returns, for every text, a result whose action is not
\* null and whose confidence lies between 0 and 1 (0..100 percent); for a
\* text that is empty or only whitespace the result is "unknown" with
\* confidence 0.
C15_ParseIntentTotal ==
    last.kind = "parse" =>
        LET received == last.pipe.received
            result == last.pipe.intent
        IN  /\ result # None
            /\ result.action \notin { "None", "" }
            /\ result.confidence \in 0..100
            /\ (\A i \in 1..Len(received) : received[i] \in Whitespace)
                 => result.action = "unknown" /\ result.confidence = 0

\* a text of whitespace only was parsed
C15_Witness ==
    /\ last.kind = "parse"
    /\ last.pipe.received # <<>>
    /\ \A i \in 1..Len(last.pipe.received) :
           last.pipe.received[i] \in Whitespace
    /\ last.pipe.intent.action = "unknown"

\* a command with whitespace around it was parsed
C15_WitnessCommand ==
    /\ last.kind = "parse"
    /\ last.pipe.received # <<>>
    /\ Head(last.pipe.received) \in Whitespace
    /\ last.pipe.intent.action = "add_habit"
    /\ last.pipe.intent.confidence = 85

HOW_AM_I_DOING_WITH ==
    <<"h", "o", "w", " ", "a", "m", " ", "i", " ", "d", "o", "i", "n", "g",
      " ", "w", "i", "t", "h", " ">>

\* the text is "how am I doing with <habit>" for a habit name of two or more
\* characters
IsStatusQuery(received) ==
    LET text == Lower(Strip(received))
        n == Len(HOW_AM_I_DOING_WITH)
    IN  /\ Len(text) >= n + 2
        /\ SubSeq(text, 1, n) = HOW_AM_I_DOING_WITH

\* C16: a status query of the form "how am I doing with <habit>" is
\* classified as habit_status, and not as conversation, for every habit name.
C16_StatusQueryIsHabitStatus ==
    (last.kind = "parse" /\ IsStatusQuery(last.pipe.received)) =>
        /\ last.pipe.intent.action = "habit_status"
        /\ last.pipe.intent.action # "conversation"

\* C17: the name normalizer is idempotent, and the normalized form has no
\* whitespace at either end and contains no quote character.
C17_CleanIsIdempotent ==
    last.kind = "clean" =>
        LET cleaned == last.pipe.cleaned
        IN  /\ _clean_habit_name(cleaned) = cleaned
            /\ Strip(cleaned) = cleaned
            /\ \A i \in 1..Len(cleaned) : cleaned[i] \notin QuoteChars

\* a request reached process_unified_message
Classified ==
    /\ last.kind \in VoiceEntries \cup {"chat_api"}
    /\ last.pipe.classified

C18_WitnessConversation ==
    /\ Classified
    /\ last.pipe.is_voice
    /\ last.pipe.path = "conversation"
    /\ last.pipe.stored

\* C19: on every voice entry point a transcript shorter than 3 characters,
\* or one the transcriber scored lowest, is not passed to classification:
\* the request is refused and no Dispatcher action is executed.
C19_UnclearSpeechRefused ==
    (/\ last.kind \in VoiceEntries
     /\ \/ Len(last.pipe.transcript) < 3
        \/ last.pipe.score = 0)
        => /\ ~last.pipe.classified
           /\ last.pipe.path = "refused"
           /\ last.outcome = NoOutcome
           /\ StoreUnchanged

\* C20: when the call of the conversation model fails or times out and
\* nothing else goes wrong, the conversation fallback answers with one of
\* the canned responses, the turn completes as a conversation turn, and no
\* error is reported.
C20_ModelFailureDegrades ==
    (/\ Classified
     /\ last.pipe.fault.model # "ok"
     /\ last.pipe.fault.raise = "none"
     /\ ~Gate(last.pipe.action, last.pipe.confidence))
        => /\ last.pipe.reply \in { "canned_reply",
                                    "perfect_added_then_canned_reply" }
           /\ last.pipe.path = "conversation"
           /\ last.pipe.processing_type \notin { "error", "" }
           /\ ~last.pipe.raised
           /\ last.pipe.status = 200
           /\ last.pipe.stored <=> ~last.pipe.fault.chat

\* the model timed out on a spoken message and the canned response was
\* returned and stored
C20_Witness ==
    /\ Classified
    /\ last.pipe.fault.model = "timeout"
    /\ last.pipe.is_voice
    /\ last.pipe.reply = "canned_reply"
    /\ last.pipe.stored

\* the model was down on a message that created a habit implicitly
C20_WitnessCreated ==
    /\ Classified
    /\ last.pipe.fault.model = "down"
    /\ last.pipe.reply = "perfect_added_then_canned_reply"
    /\ last.pipe.action_taken


\* two calls on different connections that ran at the same time and have
\* both returned
Concurrent(a, b) ==
    /\ a # b
    /\ conns[a].pc = "returned" /\ conns[b].pc = "returned"
    /\ conns[a].overlapped /\ conns[b].overlapped

\* C21: when two add_habit calls for the same user and the same name have
\* run concurrently, whatever the order of their duplicate checks and
\* inserts, exactly one habit with that name is stored once both have
\* returned, and at most one of the two calls reports success=true.
C21_ConcurrentAddsStoreOne ==
    \A a, b \in Conns :
        ( /\ Concurrent(a, b)
          /\ conns[a].op = "add_habit" /\ conns[b].op = "add_habit"
          /\ conns[a].user_id = conns[b].user_id
          /\ Strip(conns[a].data.habit_name) = Strip(conns[b].data.habit_name) )
        => /\ Cardinality({ h \in habits :
                              /\ h.user_id = conns[a].user_id
                              /\ h.name = Strip(conns[a].data.habit_name) }) = 1
           /\ ~(conns[a].outcome.success /\ conns[b].outcome.success)

\* both calls passed the duplicate check before either had committed: one
\* call added the habit, the INSERT of the other was rejected by the store
C21_Witness ==
    \E a, b \in Conns :
        /\ Concurrent(a, b)
        /\ conns[a].op = "add_habit" /\ conns[b].op = "add_habit"
        /\ conns[a].outcome.message = "added"
        /\ conns[b].outcome.message = "sorry_add"
        /\ Cardinality(habits) = 1

\* C27: in every reachable state, during and after every interleaving of a
\* complete_habit call with a delete_habit call on the same habit, each
\* stored completion entry refers to a habit that is stored.
C27_EntriesReferToStoredHabits ==
    \A e \in entries : \E h \in habits : h.id = e.habit_id

\* the routes of the frontend and the route of the page each navigation
\* action asks for
Routes ==
    { "/", "/habits", "/analytics", "/chat", "/settings", "/login",
      "/account" }

RequestedRoute ==
    [navigate_home |-> "/", navigate_habits |-> "/habits",
     navigate_analytics |-> "/analytics", navigate_chat |-> "/chat",
     navigate_settings |-> "/settings"]

\* C22: every frontend directive the pipeline returns has a type among
\* navigate, refresh_habits, refresh and logout and a target that is a route
\* or null; a habit action comes with a directive only when its outcome has
\* success=true, and the directive is then refresh_habits; a navigation
\* action comes with a navigate directive to the route of the page asked for.
C22_FrontendDirectives ==
    Classified =>
        LET directive == last.pipe.frontend
            dispatched == last.pipe.path = "dispatch"
        IN  /\ directive # NoDirective =>
                /\ directive.type \in { "navigate", "refresh_habits",
                                        "refresh", "logout" }
                /\ directive.navigate \in Routes \cup { "None" }
            /\ ~dispatched => directive = NoDirective
            /\ dispatched /\ last.pipe.action \in HabitActions =>
                directive = IF last.outcome.success
                            THEN Directive("refresh_habits", "None")
                            ELSE NoDirective
            /\ dispatched /\ last.pipe.action \in NavigationActions =>
                directive = Directive("navigate",
                                      RequestedRoute[last.pipe.action])

\* "go to analytics" was answered with a navigate directive to /analytics
C22_Witness ==
    /\ Classified
    /\ last.pipe.message = "go to analytics"
    /\ last.pipe.frontend = Directive("navigate", "/analytics")

\* a habit action failed and came without a directive, and one succeeded and
\* came with refresh_habits
C22_WitnessFailed ==
    /\ Classified
    /\ last.pipe.path = "dispatch"
    /\ last.pipe.action \in HabitActions
    /\ ~last.outcome.success
    /\ last.pipe.frontend = NoDirective

C22_WitnessRefresh ==
    /\ Classified
    /\ last.pipe.action = "add_habit"
    /\ last.outcome.success
    /\ last.pipe.frontend.type = "refresh_habits"

\* the request carried a text that one of conversation_patterns matches
CueHeard ==
    /\ Classified
    /\ \E u \in Spoken : u.text = last.pipe.message /\ u.conversational

\* the utterance of the request
Heard == CHOOSE u \in Spoken : u.text = last.pipe.message

\* the habits and entries of the caller are the ones the request started from
CallerRowsUnchanged ==
    /\ UserRows(DB, last.user) = UserRows(last.pre, last.user)
    /\ { e \in entries : e.user_id = last.user }
           = { e \in last.pre.entries : e.user_id = last.user }

\* C23 as stated: a text that matches a conversational cue is classified
\* 'conversation' with confidence 0.9 whatever action patterns it matches,
\* the Dispatcher is not invoked, and the user's habits and completion
\* entries are unchanged.
C23_CueLeavesStoreUnchanged ==
    CueHeard =>
        /\ last.pipe.action = "conversation"
        /\ last.pipe.confidence = 90
        /\ last.pipe.path # "dispatch"
        /\ last.outcome = NoOutcome
        /\ CallerRowsUnchanged

\* C23: a text that matches a conversational cue is classified
\* 'conversation' with confidence 0.9 whatever action patterns it matches and
\* the Dispatcher is not invoked; the user's completion entries are
\* unchanged, no habit is removed or renamed, and the habits are unchanged
\* unless the looser pattern scan of the conversation fallback captures a
\* habit name in the text, in which case the only new habits are the ones
\* that scan created.
C23_CueBypassesDispatcher ==
    CueHeard =>
        /\ last.pipe.action = "conversation"
        /\ last.pipe.confidence = 90
        /\ last.pipe.path # "dispatch"
        /\ last.outcome = NoOutcome
        /\ entries = last.pre.entries
        /\ last.pre.habits \subseteq habits
        /\ \A h \in habits \ last.pre.habits :
              /\ h.user_id = last.user
              /\ \E i \in 1..Len(last.pipe.created) : last.pipe.created[i] = h.name
        /\ Heard.implicit = <<>> => CallerRowsUnchanged

\* a greeting that also matches an add_habit pattern was answered as
\* conversation while the user had a habit and an entry
C23_Witness ==
    /\ CueHeard
    /\ Heard.matches # <<>>
    /\ Heard.implicit = <<>>
    /\ last.pipe.path = "conversation"
    /\ last.pre.habits # {}
    /\ CallerRowsUnchanged

\* the looser scan created a habit from a greeting
C23_WitnessCreated ==
    /\ CueHeard
    /\ Heard.matches # <<>>
    /\ habits # last.pre.habits

\* names looked up against the store: the names callers pass, and two that
\* only share words with stored names ("y z", "X Y")
ResolverQueries ==
    LookupNames \cup { <<"y", " ", "z">>, <<"X", " ", "Y">> }

\* the first strategy of the resolver under which the stored name answers
\* the name looked up: 1 exact, 2 equal ignoring case, 3 one contains the
\* other ignoring case, 4 a word in common, 5 none
Strategy(habit_name, name) ==
    LET q == Lower(habit_name)
        n == Lower(name)
    IN  IF name = habit_name THEN 1
        ELSE IF n = q THEN 2
        ELSE IF Contains(n, q) \/ Contains(q, n) THEN 3
        ELSE IF SplitWords(q) \cap SplitWords(n) # {} THEN 4
        ELSE 5

\* the number of words the two names share, ignoring case
SharedWords(habit_name, name) ==
    Cardinality(SplitWords(Lower(habit_name)) \cap SplitWords(Lower(name)))

\* res is what the strategies, tried in order, give for habit_name among the
\* habits of user_id in db
ByStrategyOrder(db, habit_name, user_id, res) ==
    LET rows == { h \in db.habits : h.user_id = user_id }
        seen == IndexOrder(rows)
        first == IF rows = {} THEN 5
                 ELSE CHOOSE t \in 1..5 :
                        /\ \E h \in rows : Strategy(habit_name, h.name) = t
                        /\ \A h \in rows : Strategy(habit_name, h.name) >= t
    IN  IF first = 5 THEN res.id = 0 /\ res.name = <<>>
        ELSE \E i \in 1..Len(seen) :
                /\ seen[i].id = res.id
                /\ seen[i].name = res.name
                /\ Strategy(habit_name, seen[i].name) = first
                /\ first = 4 =>
                      /\ \A h \in rows : SharedWords(habit_name, h.name)
                                            <= SharedWords(habit_name, res.name)
                      /\ \A j \in 1..(i - 1) :
                            SharedWords(habit_name, seen[j].name)
                                < SharedWords(habit_name, res.name)

\* the Dispatcher actions that resolve a name
ResolvingActions ==
    { "complete_habit", "delete_habit", "edit_habit", "habit_status" }

\* C24: the resolver tries its strategies in a fixed order and the first that
\* succeeds decides: exact match, then case-insensitive match, then
\* containment in either direction, then word overlap with the largest
\* positive number of shared words and ties going to the candidate seen
\* first; if none succeeds the result is null.  Checked for every name looked
\* up in every store, and for the habit each handler resolved.
C24_StrategiesInOrder ==
    /\ \A user_id \in Users : \A habit_name \in ResolverQueries :
          ByStrategyOrder(DB, habit_name, user_id,
                          _find_habit_by_name(DB, habit_name, user_id, 0))
    /\ (/\ last.kind = "dispatch"
        /\ last.outcome.action \in ResolvingActions
        /\ last.resolved # 0)
          => \E h \in last.pre.habits :
                /\ h.id = last.resolved
                /\ ByStrategyOrder(last.pre, last.query, last.user, h)

\* a handler resolved a name by word overlap
C24_WitnessOverlap ==
    /\ last.kind = "dispatch"
    /\ last.outcome.action \in ResolvingActions
    /\ last.resolved # 0
    /\ \E h \in last.pre.habits :
          h.id = last.resolved /\ Strategy(last.query, h.name) = 4

\* a handler resolved a name in a store with two habits that share the same
\* number of words with "y z" and different numbers of words with "X Y", and
\* "X Y" resolves to the one that shares more, "y z" to the one seen first
C24_Witness ==
    /\ last.kind = "dispatch"
    /\ last.outcome.action \in ResolvingActions
    /\ last.resolved # 0
    /\ DB = last.pre
    /\ \E a, b \in UserRows(DB, 1) :
          /\ a # b
          /\ Strategy(<<"y", " ", "z">>, a.name) = 4
          /\ Strategy(<<"y", " ", "z">>, b.name) = 4
          /\ SharedWords(<<"X", " ", "Y">>, a.name)
                > SharedWords(<<"X", " ", "Y">>, b.name)
          /\ \A h \in UserRows(DB, 1) : Strategy(<<"X", " ", "Y">>, h.name) >= 4
          /\ _find_habit_by_name(DB, <<"X", " ", "Y">>, 1, 0).id = a.id
          /\ _find_habit_by_name(DB, <<"y", " ", "z">>, 1, 0).id = b.id

\* a name was resolved by containment and one by a case-insensitive match
C24_WitnessContained ==
    /\ last.kind = "dispatch"
    /\ last.outcome.action \in ResolvingActions
    /\ \E h \in last.pre.habits :
          h.id = last.resolved /\ Strategy(last.query, h.name) = 3
    /\ \E h \in UserRows(DB, 1) : \E q \in ResolverQueries :
          /\ Strategy(q, h.name) = 2
          /\ _find_habit_by_name(DB, q, 1, 0).id = h.id

\* the phrase a call of parse_intent received
Received ==
    CHOOSE u \in Phrases : Strip(u.chars) = Strip(last.pipe.received)

\* a text that is not empty and matches no conversational cue was parsed
ScannedForActions ==
    /\ last.kind = "parse"
    /\ Strip(last.pipe.received) # <<>>
    /\ ~Received.conversational

\* the action a category of the pattern table stands for
Decided(category) ==
    IF category = "complete_habit_date" THEN "complete_habit" ELSE category

\* the categories of the pattern table, in their order
CategoryOrder ==
    << "add_habit", "complete_habit", "complete_habit_date", "edit_habit",
       "delete_habit", "show_habits", "habit_status", "navigate_home",
       "navigate_habits", "navigate_analytics", "navigate_chat",
       "navigate_settings", "logout", "view_account", "refresh_page",
       "clear_data", "show_help", "app_info", "show_today", "show_calendar" >>

CategoryIndex(category) ==
    CHOOSE i \in 1..Len(CategoryOrder) : CategoryOrder[i] = category

\* the matches of a phrase are listed in the order of the pattern table
InTableOrder(matches) ==
    \A i, j \in 1..Len(matches) :
        i < j => CategoryIndex(matches[i].action) <= CategoryIndex(matches[j].action)

\* a name is extracted from the groups the pattern captured: the category
\* needs none, or the normalized name has two characters or more (for a
\* rename, both names are not empty)
Yields(m) ==
    LET Name(i) == _clean_habit_name(m.groups[i])
    IN  CASE m.action \in { "add_habit", "complete_habit", "delete_habit",
                            "habit_status", "complete_habit_date" } ->
                Len(Name(1)) > 1
          [] m.action = "edit_habit" ->
                IF Len(m.groups) >= 2 THEN Name(1) # <<>> /\ Name(2) # <<>>
                ELSE Name(1) # <<>>
          [] OTHER -> TRUE

\* C25 as stated: the classification of a non-conversational text is decided
\* by the first pattern that matches, categories scanned in their fixed order
\* and patterns in listed order; once a pattern matches, no later pattern or
\* category determines the result.
C25_FirstMatchDecides ==
    (ScannedForActions /\ Received.matches # <<>>) =>
        /\ InTableOrder(Received.matches)
        /\ last.pipe.intent.action = Decided(Head(Received.matches).action)

\* C25: the classification of a non-conversational text is decided by the
\* first pattern, in the fixed order of categories and the listed order of
\* patterns, that matches and from whose captured groups a name is extracted
\* where the category needs one; a match that yields no name is skipped and
\* the scan goes on, and once a pattern has matched and yielded a result no
\* later pattern or category determines it.  If no match yields a result the
\* text is habit_conversation or conversation.
C25_FirstYieldingMatchDecides ==
    ScannedForActions =>
        LET yielding == SelectSeq(Received.matches, Yields)
            result == last.pipe.intent
        IN  /\ InTableOrder(Received.matches)
            /\ yielding # <<>> =>
                  /\ result.action = Decided(Head(yielding).action)
                  /\ result.confidence > 50
                  /\ Head(yielding).action
                        \in { "add_habit", "complete_habit", "delete_habit",
                              "habit_status", "complete_habit_date" }
                       => result.data.habit_name
                             = _clean_habit_name(Head(yielding).groups[1])
            /\ yielding = <<>> =>
                  result.action = IF Received.keywords THEN "habit_conversation"
                                  ELSE "conversation"

\* a text matching a completion pattern and, later in the table, a navigation
\* pattern was classified complete_habit
C25_Witness ==
    /\ ScannedForActions
    /\ Len(Received.matches) > 1
    /\ Head(Received.matches).action = "complete_habit"
    /\ \E i \in 2..Len(Received.matches) :
          Received.matches[i].action = "navigate_home"
    /\ Yields(Head(Received.matches))
    /\ last.pipe.intent.action = "complete_habit"

\* the first match yielded no name and a later category decided
C25_WitnessSkipped ==
    /\ ScannedForActions
    /\ Received.matches # <<>>
    /\ ~Yields(Head(Received.matches))
    /\ last.pipe.intent.action = "logout"

\* the replies that begin with "Perfect! I've added ... to your habits
\* tracker."
Acknowledging ==
    { "perfect_added_then_ai_reply", "perfect_added_then_canned_reply" }

\* C26: on the conversation-fallback path the reply carries the 'added to
\* your habits tracker' acknowledgment, and action_taken is true, exactly
\* when the looser pattern scan created a new habit in the store; the
\* conversational reply follows the prefix and the turn is persisted unless
\* the INSERT into chat_history fails.
C26_AcknowledgedIffCreated ==
    (Classified /\ last.pipe.path = "conversation") =>
        LET created == habits # last.pre.habits
        IN  /\ last.pipe.reply \in Acknowledging <=> created
            /\ last.pipe.action_taken <=> created
            /\ last.pipe.reply
                  \in Acknowledging \cup { "ai_reply", "canned_reply" }
            /\ last.pipe.stored <=> ~last.pipe.fault.chat

\* the habits of a user in a store, and the entries that carry the user's id
\* or belong to one of the user's habits
RowsOf(db, user_id) ==
    LET own == { h \in db.habits : h.user_id = user_id }
    IN  [habits |-> own,
         entries |-> { e \in db.entries :
                          \/ e.user_id = user_id
                          \/ \E h \in own : h.id = e.habit_id }]

\* C28: every Dispatcher operation executed for user u leaves the habits and
\* completion entries of every other user unchanged, and never resolves a
\* name to another user's habit.
C28_OtherUsersUntouched ==
    (Piped /\ last.pipe.path = "dispatch") =>
        /\ \A other \in Users \ {last.user} :
              RowsOf(DB, other) = RowsOf(last.pre, other)
        /\ \A h \in last.pre.habits \cup habits :
              h.id = last.resolved => h.user_id = last.user

\* user 1 deleted a habit, and its entries, while user 2 had a habit of the
\* same name with an entry
C28_Witness ==
    /\ Piped
    /\ last.pipe.path = "dispatch"
    /\ last.user = 1
    /\ last.outcome.action = "delete_habit"
    /\ last.outcome.success
    /\ \E e \in last.pre.entries : e.habit_id = last.resolved
    /\ \E h \in UserRows(DB, 2) :
          /\ h.name = last.outcome.habit_name
          /\ \E e \in entries : e.habit_id = h.id /\ e.user_id = 2

\* user 2 completed a habit whose name user 1 has stored too
C28_WitnessComplete ==
    /\ Piped
    /\ last.pipe.path = "dispatch"
    /\ last.user = 2
    /\ last.outcome.action = "complete_habit"
    /\ last.outcome.success
    /\ \E h \in UserRows(DB, 1) : h.name = last.outcome.habit_name

\* the matches of the heard text with a complete_habit_date pattern
DatedMatches ==
    SelectSeq(Heard.matches, LAMBDA m : m.action = "complete_habit_date")

\* the request carried a completion utterance that names a date and matches
\* a complete_habit_date pattern
DatedCompletionHeard ==
    /\ Classified
    /\ \E u \in Spoken : u.text = last.pipe.message
    /\ ~Heard.conversational
    /\ DatedMatches # <<>>
    /\ _parse_date(Head(DatedMatches).groups[2]) # <<>>

\* C29: a completion utterance that names a date and matches a
\* complete_habit_date pattern gives a complete_habit intent that carries the
\* parsed date, and the Dispatcher records the completion on that date and
\* not on today.
C29_DatedCompletionCarriesDate ==
    DatedCompletionHeard =>
        LET date == _parse_date(Head(DatedMatches).groups[2])
        IN  /\ last.pipe.action = "complete_habit"
            /\ last.date = date
            /\ last.outcome.message = "marked_completed" =>
                  /\ last.outcome.date = date
                  /\ \E e \in entries \ last.pre.entries :
                        e.habit_id = last.resolved /\ e.date = date[1]

\* C30: a successful rename changes only the name of the resolved habit: the
\* habit keeps its id, its owner and all of its completion entries, and every
\* other habit and every entry is unchanged.
C30_RenameChangesOnlyTheName ==
    (Dispatched("edit_habit") /\ last.outcome.message = "renamed") =>
        \E h \in last.pre.habits :
            /\ h.id = last.resolved
            /\ h.user_id = last.user
            /\ h.name = last.outcome.habit_name
            /\ last.outcome.new_name = last.new
            /\ habits = (last.pre.habits \ {h})
                            \cup { [id |-> h.id, user_id |-> h.user_id,
                                    name |-> last.new] }
            /\ entries = last.pre.entries
            /\ seq = last.pre.seq

\* a habit with a completion entry got a new name while the user had another
\* habit, with an entry of its own
C30_Witness ==
    /\ Dispatched("edit_habit")
    /\ last.outcome.message = "renamed"
    /\ last.outcome.habit_name # last.new
    /\ \E e \in entries : e.habit_id = last.resolved
    /\ \E h \in habits :
          /\ h.id # last.resolved
          /\ h.user_id = last.user
          /\ \E e \in entries : e.habit_id = h.id
====
